---- MODULE Spec2Model ----
(***************************************************************************)
(* Model of the slop detector (src/lib/slopDetector.ts).                   *)
(*                                                                         *)
(* A JavaScript string is modelled as a sequence of one-character strings, *)
(* so that splitting, trimming, lower-casing, substring search and regular *)
(* expression matching are computed character by character, as the code    *)
(* computes them.                                                          *)
(***************************************************************************)
EXTENDS Integers, Sequences, FiniteSets, TLC

\* the caller of analyzeSlopContent
VARIABLES lexicon, input, nruns, pc, result, lastIndex, earlierCalls
\* the caller of getSlopRating and getSlopColor
VARIABLES shownScore, rating, color
\* one call of an AI provider
VARIABLES calledProvider, callContent, serviceReply, providerPc, callOutcome
\* the caller of aggregateAIResults and enrichWithAI
VARIABLES libCopy, givenResults, aggregated, givenAnalysis, givenConfig, enriched, libPc
\* one request to the ai-analyze endpoint
VARIABLES routeCopy, consensusCopy, request, routeInternal, aiConfig, callState,
          invocations, rawOutcome, branch, consensusPromise, response, routePc
\* the page component Home: its state (analysis and error under the names
\* pageAnalysis and pageError, useAI under pageUseAI), the handler calls that
\* wait for a fetch, and whether the input type was switched since the
\* last analysis was started
VARIABLES pageCopy, inputType, textContent, youtubeUrl, loading, pageAnalysis,
          pageError, pageUseAI, aiWarning, handlers, clearedBySwitch

slopVars == <<lexicon, input, nruns, pc, result, lastIndex, earlierCalls>>
ratingVars == <<shownScore, rating, color>>
providerVars == <<calledProvider, callContent, serviceReply, providerPc, callOutcome>>
consensusVars ==
  <<libCopy, givenResults, aggregated, givenAnalysis, givenConfig, enriched, libPc>>
routeVars ==
  <<routeCopy, consensusCopy, request, routeInternal, aiConfig, callState,
    invocations, rawOutcome, branch, consensusPromise, response, routePc>>
pageVars ==
  <<pageCopy, inputType, textContent, youtubeUrl, loading, pageAnalysis, pageError,
    pageUseAI, aiWarning, handlers, clearedBySwitch>>
vars == <<slopVars, ratingVars, providerVars, consensusVars, routeVars, pageVars>>

\* the variables each state machine leaves alone
outsideSlop == <<ratingVars, providerVars, consensusVars, routeVars, pageVars>>
outsideRating == <<slopVars, providerVars, consensusVars, routeVars, pageVars>>
outsideProvider == <<slopVars, ratingVars, consensusVars, routeVars, pageVars>>
outsideConsensus == <<slopVars, ratingVars, providerVars, routeVars, pageVars>>
outsideRoute == <<slopVars, ratingVars, providerVars, consensusVars, pageVars>>
outsidePage == <<slopVars, ratingVars, providerVars, consensusVars, routeVars>>

(***************************************************************************)
(* Bounds of the model.                                                    *)
(***************************************************************************)
\* number of runs (a piece repeated a number of times) an input is made of
MaxRuns == 2
\* largest score handed to getSlopRating and getSlopColor
MaxScore == 100
\* largest number of provider results handed to aggregateAIResults
MaxResults == 2
\* largest number of providers a request configures
MaxProviders == 2
\* largest number of handler calls of the page that wait at one time
MaxHandlers == 2
\* largest numbers of words and of sentences of the texts on which the rules
\* of calculateLowEffortScore are tabulated
MaxWords == 120
MaxSentences == 3

(***************************************************************************)
(* Characters and elementary string functions.                             *)
(***************************************************************************)
UpperToLower ==
  ("A" :> "a") @@ ("B" :> "b") @@ ("C" :> "c") @@ ("D" :> "d") @@ ("E" :> "e") @@
  ("F" :> "f") @@ ("G" :> "g") @@ ("H" :> "h") @@ ("I" :> "i") @@ ("J" :> "j") @@
  ("K" :> "k") @@ ("L" :> "l") @@ ("M" :> "m") @@ ("N" :> "n") @@ ("O" :> "o") @@
  ("P" :> "p") @@ ("Q" :> "q") @@ ("R" :> "r") @@ ("S" :> "s") @@ ("T" :> "t") @@
  ("U" :> "u") @@ ("V" :> "v") @@ ("W" :> "w") @@ ("X" :> "x") @@ ("Y" :> "y") @@
  ("Z" :> "z")

DigitChars == <<"0", "1", "2", "3", "4", "5", "6", "7", "8", "9">>

Digits == {DigitChars[i] : i \in 1..10}

UpperLetters == DOMAIN UpperToLower

LowerLetters == {UpperToLower[c] : c \in UpperLetters}

\* the character class [a-z0-9]
LowerAlnum == LowerLetters \cup Digits

\* the character class \w
WordChars == LowerLetters \cup UpperLetters \cup Digits \cup {"_"}

\* the characters of the class \s that the inputs use
Whitespace == {" ", "\t", "\n"}

\* the character class [.!?]
SentenceEnd == {".", "!", "?"}

\* the positions 1..n, in order
Indices(n) == [i \in 1..n |-> i]

toLowerChar(c) == IF c \in UpperLetters THEN UpperToLower[c] ELSE c

\* String.prototype.toLowerCase
toLowerCase(s) == [i \in 1..Len(s) |-> toLowerChar(s[i])]

\* String.prototype.trim
trim(s) ==
  IF \A i \in 1..Len(s) : s[i] \in Whitespace THEN <<>>
  ELSE SubSeq(s,
         CHOOSE a \in 1..Len(s) :
           s[a] \notin Whitespace /\ \A b \in 1..(a - 1) : s[b] \in Whitespace,
         CHOOSE a \in 1..Len(s) :
           s[a] \notin Whitespace /\ \A b \in (a + 1)..Len(s) : s[b] \in Whitespace)

\* the first position p >= from with s[p] in Seps, Len(s) + 1 when none
NextSep(s, from, Seps) ==
  CHOOSE p \in from..(Len(s) + 1) :
    /\ p = Len(s) + 1 \/ s[p] \in Seps
    /\ \A q \in from..(p - 1) : s[q] \notin Seps

\* String.prototype.split on a regular expression of the form /[Seps]+/: the
\* segments between the maximal runs of separators.  A segment starts at
\* position 1 and right after every run of separators (so the first and the
\* last segment are empty when s starts or ends with a separator).
split(s, Seps) ==
  LET n == Len(s)
      starts == SelectSeq(Indices(n + 1),
                  LAMBDA p : \/ p = 1
                             \/ /\ s[p - 1] \in Seps
                                /\ p = n + 1 \/ s[p] \notin Seps)
  IN [k \in 1..Len(starts) |->
        SubSeq(s, starts[k], NextSep(s, starts[k], Seps) - 1)]

\* String.prototype.includes
includes(s, sub) ==
  \E i \in 1..(Len(s) - Len(sub) + 1) :
    \A j \in 1..Len(sub) : s[i + j - 1] = sub[j]

\* Array.prototype.join
RECURSIVE join(_, _)
join(strs, sep) ==
  IF Len(strs) = 0 THEN <<>>
  ELSE IF Len(strs) = 1 THEN strs[1]
  ELSE strs[1] \o sep \o join(Tail(strs), sep)

\* Array.prototype.slice(0, n)
slice0(arr, n) == SubSeq(arr, 1, IF Len(arr) < n THEN Len(arr) ELSE n)

\* the decimal representation of a natural number (template literal `${n}`)
RECURSIVE NumberToString(_)
NumberToString(n) ==
  IF n < 10 THEN <<DigitChars[n + 1]>>
  ELSE NumberToString(n \div 10) \o <<DigitChars[(n % 10) + 1]>>

min(a, b) == IF a < b THEN a ELSE b

max(a, b) == IF a > b THEN a ELSE b

(***************************************************************************)
(* Numbers that are not integers (confidences, weights, quotients).  A     *)
(* number is the rational num / den in lowest terms with den > 0; den = 0  *)
(* marks the values that are not finite: NaN (num = 0), Infinity (num = 1) *)
(* and -Infinity (num = -1).  Rounding errors of doubles are not modelled. *)
(***************************************************************************)
RECURSIVE gcd(_, _)
gcd(a, b) == IF b = 0 THEN a ELSE gcd(b, a % b)

abs(n) == IF n < 0 THEN -n ELSE n

sgn(n) == IF n > 0 THEN 1 ELSE IF n < 0 THEN -1 ELSE 0

NaN == [num |-> 0, den |-> 0]

Infinity == [num |-> 1, den |-> 0]

Num(n, d) ==
  IF d = 0 THEN [num |-> sgn(n), den |-> 0]
  ELSE [num |-> (sgn(d) * n) \div gcd(abs(n), abs(d)),
        den |-> abs(d) \div gcd(abs(n), abs(d))]

\* isFinite
isFinite(a) == a.den # 0

\* a * b
NumMul(a, b) ==
  IF a = NaN \/ b = NaN THEN NaN ELSE Num(a.num * b.num, a.den * b.den)

\* a + b
NumAdd(a, b) ==
  IF a = NaN \/ b = NaN THEN NaN
  ELSE IF a.den = 0 /\ b.den = 0 THEN (IF a = b THEN a ELSE NaN)
  ELSE IF a.den = 0 THEN a
  ELSE IF b.den = 0 THEN b
  ELSE Num(a.num * b.den + b.num * a.den, a.den * b.den)

\* a / b (a zero divisor is +0)
NumDiv(a, b) ==
  IF a = NaN \/ b = NaN THEN NaN
  ELSE NumMul(a, IF b.den = 0 THEN Num(0, 1)
                 ELSE IF b.num = 0 THEN Infinity
                 ELSE Num(b.den, b.num))

\* a < b
NumLess(a, b) ==
  IF a = NaN \/ b = NaN THEN FALSE
  ELSE IF a.den = 0 \/ b.den = 0
    THEN (IF a.den = 0 THEN a.num ELSE 0) < (IF b.den = 0 THEN b.num ELSE 0)
  ELSE a.num * b.den < b.num * a.den

\* Math.round of a number: the nearest integer, a half rounded up; NaN and
\* the infinities are returned as they are
MathRoundNum(a) ==
  IF a.den = 0 THEN a ELSE Num((2 * a.num + a.den) \div (2 * a.den), 1)

\* the sum of an array of numbers (Array.prototype.reduce with
\* (sum, r) => sum + r and the initial value 0)
RECURSIVE reduceSum(_)
reduceSum(nums) ==
  IF Len(nums) = 0 THEN Num(0, 1)
  ELSE NumAdd(reduceSum(SubSeq(nums, 1, Len(nums) - 1)), nums[Len(nums)])

(***************************************************************************)
(* Values of a parsed JSON document, each with its typeof.                 *)
(***************************************************************************)
Undefined == [type |-> "undefined"]

Str(s) == [type |-> "string", value |-> s]

NumV(a) == [type |-> "number", value |-> a]

BoolV(flag) == [type |-> "boolean", value |-> flag]

\* ToBoolean: what `v || other` tests
Truthy(v) ==
  CASE v.type = "undefined" -> FALSE
    [] v.type = "string" -> v.value # <<>>
    [] v.type = "number" -> v.value # NaN /\ v.value.num # 0
    [] v.type = "boolean" -> v.value

\* v || other
OrElse(v, other) == IF Truthy(v) THEN v ELSE other

(***************************************************************************)
(* The constant tables.                                                    *)
(***************************************************************************)
AI_PHRASES == <<
  <<"d", "e", "l", "v", "e", " ", "i", "n", "t", "o">>,
  <<"d", "i", "v", "e", " ", "d", "e", "e", "p">>,
  <<"i", "t", "'", "s", " ", "i", "m", "p", "o", "r", "t", "a", "n", "t", " ", "t", "o", " ", "n", "o", "t", "e">>,
  <<"i", "n", " ", "c", "o", "n", "c", "l", "u", "s", "i", "o", "n">>,
  <<"i", "n", " ", "t", "o", "d", "a", "y", "'", "s", " ", "d", "i", "g", "i", "t", "a", "l", " ", "a", "g", "e">>,
  <<"r", "e", "v", "o", "l", "u", "t", "i", "o", "n", "i", "z", "e">>,
  <<"g", "a", "m", "e", "-", "c", "h", "a", "n", "g", "e", "r">>,
  <<"u", "n", "l", "o", "c", "k", " ", "t", "h", "e", " ", "s", "e", "c", "r", "e", "t", "s">>,
  <<"u", "l", "t", "i", "m", "a", "t", "e", " ", "g", "u", "i", "d", "e">>,
  <<"c", "o", "m", "p", "r", "e", "h", "e", "n", "s", "i", "v", "e", " ", "g", "u", "i", "d", "e">>,
  <<"n", "a", "v", "i", "g", "a", "t", "e", " ", "t", "h", "e", " ", "c", "o", "m", "p", "l", "e", "x", "i", "t", "i", "e", "s">>,
  <<"m", "u", "l", "t", "i", "f", "a", "c", "e", "t", "e", "d">>,
  <<"h", "o", "l", "i", "s", "t", "i", "c", " ", "a", "p", "p", "r", "o", "a", "c", "h">>,
  <<"l", "e", "v", "e", "r", "a", "g", "e">>,
  <<"s", "y", "n", "e", "r", "g", "y">>,
  <<"p", "a", "r", "a", "d", "i", "g", "m", " ", "s", "h", "i", "f", "t">> >>

\* the regular expression element \d+
DigitsPlus == "\\d+"

\* each pattern is a sequence of literal characters and \d+ elements, matched
\* case-insensitively (flag i)
CLICKBAIT_PATTERNS == <<
  <<"y", "o", "u", " ", "w", "o", "n", "'", "t", " ", "b", "e", "l", "i", "e", "v", "e">>,
  <<"s", "h", "o", "c", "k", "i", "n", "g">>,
  <<"t", "h", "i", "s", " ", "o", "n", "e", " ", "t", "r", "i", "c", "k">>,
  <<"d", "o", "c", "t", "o", "r", "s", " ", "h", "a", "t", "e">>,
  <<"n", "u", "m", "b", "e", "r", " ">> \o <<DigitsPlus>> \o <<" ", "w", "i", "l", "l", " ", "s", "h", "o", "c", "k", " ", "y", "o", "u">>,
  <<"w", "h", "a", "t", " ", "h", "a", "p", "p", "e", "n", "s", " ", "n", "e", "x", "t">>,
  <<DigitsPlus>> \o <<" ", "s", "e", "c", "r", "e", "t", "s">>,
  <<"t", "h", "e", " ", "t", "r", "u", "t", "h", " ", "a", "b", "o", "u", "t">>,
  <<"t", "h", "e", "y", " ", "d", "o", "n", "'", "t", " ", "w", "a", "n", "t", " ", "y", "o", "u", " ", "t", "o", " ", "k", "n", "o", "w">> >>

FILLER_PHRASES == <<
  <<"b", "a", "s", "i", "c", "a", "l", "l", "y">>,
  <<"l", "i", "t", "e", "r", "a", "l", "l", "y">>,
  <<"a", "c", "t", "u", "a", "l", "l", "y">>,
  <<"h", "o", "n", "e", "s", "t", "l", "y">>,
  <<"s", "o", " ", "y", "e", "a", "h">>,
  <<"u", "m">>,
  <<"u", "h">>,
  <<"y", "o", "u", " ", "k", "n", "o", "w">>,
  <<"l", "i", "k", "e">>,
  <<"s", "o", "r", "t", " ", "o", "f">>,
  <<"k", "i", "n", "d", " ", "o", "f">> >>

\* the lastIndex of every RegExp object of FILLER_REGEXES right after the
\* module is loaded
FILLER_REGEXES == [k \in 1..Len(FILLER_PHRASES) |-> 0]

(***************************************************************************)
(* Regular expression matching.                                            *)
(***************************************************************************)
\* the last position of the run of digits that starts at position p
DigitRunEnd(s, p) ==
  CHOOSE e \in p..Len(s) :
    /\ \A q \in p..e : s[q] \in Digits
    /\ e = Len(s) \/ s[e + 1] \notin Digits

\* the position right after the match of pat[j..] at position i of s, 0 when
\* there is none.  In both patterns that use it \d+ is followed by a space,
\* so the greedy match of the digits never has to give a digit back.
RECURSIVE MatchEnd(_, _, _, _)
MatchEnd(s, i, pat, j) ==
  IF j > Len(pat) THEN i
  ELSE IF i > Len(s) THEN 0
  ELSE IF pat[j] = DigitsPlus
    THEN IF s[i] \in Digits
           THEN MatchEnd(s, DigitRunEnd(s, i) + 1, pat, j + 1)
           ELSE 0
  ELSE IF toLowerChar(s[i]) = toLowerChar(pat[j])
    THEN MatchEnd(s, i + 1, pat, j + 1)
    ELSE 0

\* String.prototype.match with a regular expression without the g flag:
\* the text of the leftmost match, found = FALSE for null
match(s, pat) ==
  LET starts == {i \in 1..Len(s) : MatchEnd(s, i, pat, 1) # 0}
  IN IF starts = {} THEN [found |-> FALSE, text |-> <<>>]
     ELSE LET i == CHOOSE a \in starts : \A b \in starts : a <= b
          IN [found |-> TRUE, text |-> SubSeq(s, i, MatchEnd(s, i, pat, 1) - 1)]

\* the assertion \b between positions p - 1 and p of s
WordBoundary(s, p) ==
  LET before == p > 1 /\ s[p - 1] \in WordChars
      after == p <= Len(s) /\ s[p] \in WordChars
  IN before # after

\* \bfiller\b matches at position p of s (flag i)
FillerMatchAt(s, filler, p) ==
  /\ p + Len(filler) - 1 <= Len(s)
  /\ \A j \in 1..Len(filler) : toLowerChar(s[p + j - 1]) = toLowerChar(filler[j])
  /\ WordBoundary(s, p)
  /\ WordBoundary(s, p + Len(filler))

\* the positions of s at which \bfiller\b matches
matchPositions(s, filler) == {p \in 1..Len(s) : FillerMatchAt(s, filler, p)}

\* RegExp.prototype.exec of a regular expression with the g flag whose
\* lastIndex is li, positions being the positions at which it matches: the
\* search starts at the (0-based) index li; a match leaves lastIndex at its
\* end, a failure resets lastIndex to 0
exec(positions, len, li) ==
  LET later == {p \in positions : p > li}
  IN IF later = {} THEN [found |-> FALSE, lastIndex |-> 0]
     ELSE [found |-> TRUE,
           lastIndex |-> (CHOOSE a \in later : \A b \in later : a <= b) + len - 1]

\* the loop of String.prototype.match with the g flag: exec until it fails,
\* n matches found so far
RECURSIVE execLoop(_, _, _, _)
execLoop(positions, len, li, n) ==
  LET m == exec(positions, len, li)
  IN IF m.found THEN execLoop(positions, len, m.lastIndex, n + 1)
     ELSE [length |-> n, lastIndex |-> m.lastIndex]

\* RegExp.prototype.exec (or test) called once in the place of
\* String.prototype.match: the search starts at lastIndex, at most one match
\* is found and lastIndex stays at its end
matchOnce(s, filler, li) ==
  LET m == exec(matchPositions(s, filler), Len(filler), li)
  IN [length |-> IF m.found THEN 1 ELSE 0, lastIndex |-> m.lastIndex]

\* String.prototype.match with a regular expression with the g flag whose
\* lastIndex is li: lastIndex is set to 0 first, then every match is
\* collected; length is the number of matches (0 for null)
matchAll(s, filler, li) == execLoop(matchPositions(s, filler), Len(filler), 0, 0)

(***************************************************************************)
(* The five scorers.  Each takes the details collected so far and returns  *)
(* its score and the details with its own entries appended.                *)
(***************************************************************************)
\* word.toLowerCase().replace(/[^a-z0-9]/g, '')
normalizeWord(word) == SelectSeq(toLowerCase(word), LAMBDA c : c \in LowerAlnum)

\* the entries <<key, count>> of the Map a forEach loop fills with the
\* occurrences of the strings of keys, in insertion order
freqEntries(keys) ==
  LET firsts == SelectSeq(Indices(Len(keys)),
                          LAMBDA i : \A j \in 1..(i - 1) : keys[j] # keys[i])
  IN [k \in 1..Len(firsts) |->
        <<keys[firsts[k]],
          Cardinality({j \in 1..Len(keys) : keys[j] = keys[firsts[k]]})>>]

\* entry e put into a list that is sorted by descending count, after the
\* entries whose count is not smaller
RECURSIVE insertByCount(_, _)
insertByCount(sorted, e) ==
  IF Len(sorted) = 0 THEN <<e>>
  ELSE IF Head(sorted)[2] >= e[2]
    THEN <<Head(sorted)>> \o insertByCount(Tail(sorted), e)
    ELSE <<e>> \o sorted

\* Array.prototype.sort((a, b) => b[1] - a[1]), which is stable
RECURSIVE sortByCount(_)
sortByCount(entries) ==
  IF Len(entries) = 0 THEN <<>>
  ELSE insertByCount(sortByCount(SubSeq(entries, 1, Len(entries) - 1)),
                     entries[Len(entries)])

\* `"${w}" (${c}x)`
formatWordCount(e) ==
  <<"\"">> \o e[1] \o <<"\"", " ", "(">> \o NumberToString(e[2]) \o <<"x", ")">>

\* highRepeatWords without the sort: the first three entries in the order of
\* insertion
highRepeatWordsUnsorted(words) ==
  LET normalized == [i \in 1..Len(words) |-> normalizeWord(words[i])]
      wordFreq == freqEntries(SelectSeq(normalized, LAMBDA w : Len(w) > 3))
  IN slice0(SelectSeq(wordFreq, LAMBDA e : e[2] > 5), 3)

highRepeatWordsOf(words) ==
  LET normalized == [i \in 1..Len(words) |-> normalizeWord(words[i])]
      wordFreq == freqEntries(SelectSeq(normalized, LAMBDA w : Len(w) > 3))
  IN slice0(sortByCount(SelectSeq(wordFreq, LAMBDA e : e[2] > 5)), 3)

\* repeatedSentences with the filter count > 2 in the place of count > 1
repeatedSentencesMoreThanTwice(sentences) ==
  LET normalized == [i \in 1..Len(sentences) |-> toLowerCase(trim(sentences[i]))]
      sentenceFreq == freqEntries(SelectSeq(normalized, LAMBDA t : Len(t) > 10))
  IN SelectSeq(sentenceFreq, LAMBDA e : e[2] > 2)

repeatedSentencesOf(sentences) ==
  LET normalized == [i \in 1..Len(sentences) |-> toLowerCase(trim(sentences[i]))]
      sentenceFreq == freqEntries(SelectSeq(normalized, LAMBDA t : Len(t) > 10))
  IN SelectSeq(sentenceFreq, LAMBDA e : e[2] > 1)

\* calculateRepetitiveness with the 30 points added for each word listed
calculateRepetitivenessPerWord(words, sentences, details) ==
  LET highRepeatWords == highRepeatWordsOf(words)
      score1 == 30 * Len(highRepeatWords)
      details1 ==
        IF Len(highRepeatWords) > 0
          THEN Append(details,
                 <<"H", "i", "g", "h", "l", "y", " ", "r", "e", "p", "e", "a", "t", "e", "d", " ", "w", "o", "r", "d", "s", ":", " ">>
                   \o join([k \in 1..Len(highRepeatWords) |->
                              formatWordCount(highRepeatWords[k])], <<",", " ">>))
          ELSE details
      repeatedSentences == repeatedSentencesOf(sentences)
      score2 == IF Len(repeatedSentences) > 0 THEN score1 + 40 ELSE score1
      details2 ==
        IF Len(repeatedSentences) > 0
          THEN Append(details1,
                 NumberToString(Len(repeatedSentences))
                   \o <<" ", "s", "e", "n", "t", "e", "n", "c", "e", "(", "s", ")", " ", "r", "e", "p", "e", "a", "t", "e", "d", " ", "m", "u", "l", "t", "i", "p", "l", "e", " ", "t", "i", "m", "e", "s">>)
          ELSE details1
  IN [score |-> min(score2, 100), details |-> details2]

calculateRepetitiveness(words, sentences, details) ==
  LET highRepeatWords == highRepeatWordsOf(words)
      score1 == IF Len(highRepeatWords) > 0 THEN 30 ELSE 0
      details1 ==
        IF Len(highRepeatWords) > 0
          THEN Append(details,
                 <<"H", "i", "g", "h", "l", "y", " ", "r", "e", "p", "e", "a", "t", "e", "d", " ", "w", "o", "r", "d", "s", ":", " ">>
                   \o join([k \in 1..Len(highRepeatWords) |->
                              formatWordCount(highRepeatWords[k])], <<",", " ">>))
          ELSE details
      repeatedSentences == repeatedSentencesOf(sentences)
      score2 == IF Len(repeatedSentences) > 0 THEN score1 + 40 ELSE score1
      details2 ==
        IF Len(repeatedSentences) > 0
          THEN Append(details1,
                 NumberToString(Len(repeatedSentences))
                   \o <<" ", "s", "e", "n", "t", "e", "n", "c", "e", "(", "s", ")", " ", "r", "e", "p", "e", "a", "t", "e", "d", " ", "m", "u", "l", "t", "i", "p", "l", "e", " ", "t", "i", "m", "e", "s">>)
          ELSE details1
  IN [score |-> min(score2, 100), details |-> details2]

\* the phrases from the k-th on, each as many times as it occurs
RECURSIVE occurrencesFrom(_, _)
occurrencesFrom(lowerContent, k) ==
  IF k > Len(AI_PHRASES) THEN <<>>
  ELSE LET phrase == AI_PHRASES[k]
           at == {i \in 1..(Len(lowerContent) - Len(phrase) + 1) :
                    SubSeq(lowerContent, i, i + Len(phrase) - 1) = phrase}
       IN [j \in 1..Cardinality(at) |-> phrase] \o occurrencesFrom(lowerContent, k + 1)

\* foundPhrases with a phrase pushed once for each of its occurrences
foundOccurrencesOf(lowerContent) == occurrencesFrom(lowerContent, 1)

\* the phrases AI_PHRASES.forEach pushes to foundPhrases
foundPhrasesOf(lowerContent) ==
  SelectSeq(AI_PHRASES, LAMBDA p : includes(lowerContent, p))

\* calculateAIScore without the final Math.min(score, 100)
calculateAIScoreUnclamped(lowerContent, details) ==
  LET foundPhrases == foundPhrasesOf(lowerContent)
      details1 ==
        IF Len(foundPhrases) > 0
          THEN Append(details,
                 <<"A", "I", "-", "t", "y", "p", "i", "c", "a", "l", " ", "p", "h", "r", "a", "s", "e", "s", " ", "d", "e", "t", "e", "c", "t", "e", "d", ":", " ">>
                   \o join(slice0(foundPhrases, 3), <<",", " ">>)
                   \o (IF Len(foundPhrases) > 3 THEN <<".", ".", ".">> ELSE <<>>))
          ELSE details
  IN [score |-> 15 * Len(foundPhrases), details |-> details1]

calculateAIScore(lowerContent, details) ==
  LET foundPhrases == foundPhrasesOf(lowerContent)
      score == 15 * Len(foundPhrases)
      details1 ==
        IF Len(foundPhrases) > 0
          THEN Append(details,
                 <<"A", "I", "-", "t", "y", "p", "i", "c", "a", "l", " ", "p", "h", "r", "a", "s", "e", "s", " ", "d", "e", "t", "e", "c", "t", "e", "d", ":", " ">>
                   \o join(slice0(foundPhrases, 3), <<",", " ">>)
                   \o (IF Len(foundPhrases) > 3 THEN <<".", ".", ".">> ELSE <<>>))
          ELSE details
  IN [score |-> min(score, 100), details |-> details1]

\* content.match(/!/) without the g flag: an array of one match, or null
exclamationFound(content) ==
  IF \E i \in 1..Len(content) : content[i] = "!" THEN 1 ELSE 0

\* (content.match(/!/g) || []).length
exclamationCountOf(content) ==
  Cardinality({i \in 1..Len(content) : content[i] = "!"})

\* calculateClickbaitScore without slice(0, 2): the entry lists every match
calculateClickbaitScoreListsAll(lowerContent, content, details) ==
  LET matches == [k \in 1..Len(CLICKBAIT_PATTERNS) |->
                    match(content, CLICKBAIT_PATTERNS[k])]
      matched == SelectSeq(matches, LAMBDA m : m.found)
      foundPatterns == [k \in 1..Len(matched) |-> matched[k].text]
      score1 == 25 * Len(foundPatterns)
      exclamationCount == exclamationCountOf(content)
      score2 == IF exclamationCount > 5 THEN score1 + 20 ELSE score1
      details1 ==
        IF exclamationCount > 5
          THEN Append(details,
                 <<"E", "x", "c", "e", "s", "s", "i", "v", "e", " ", "e", "x", "c", "l", "a", "m", "a", "t", "i", "o", "n", " ", "m", "a", "r", "k", "s", " ", "(">>
                   \o NumberToString(exclamationCount) \o <<")">>)
          ELSE details
      details2 ==
        IF Len(foundPatterns) > 0
          THEN Append(details1,
                 <<"C", "l", "i", "c", "k", "b", "a", "i", "t", " ", "p", "a", "t", "t", "e", "r", "n", "s", ":", " ">>
                   \o join(foundPatterns, <<",", " ">>))
          ELSE details1
  IN [score |-> min(score2, 100), details |-> details2]

\* calculateClickbaitScore with the exclamation entry written from 7 marks
\* on only: 6 marks add their points without an entry
calculateClickbaitScoreQuiet(lowerContent, content, details) ==
  LET matches == [k \in 1..Len(CLICKBAIT_PATTERNS) |->
                    match(content, CLICKBAIT_PATTERNS[k])]
      matched == SelectSeq(matches, LAMBDA m : m.found)
      foundPatterns == [k \in 1..Len(matched) |-> matched[k].text]
      score1 == 25 * Len(foundPatterns)
      exclamationCount == exclamationCountOf(content)
      score2 == IF exclamationCount > 5 THEN score1 + 20 ELSE score1
      details1 ==
        IF exclamationCount > 6
          THEN Append(details,
                 <<"E", "x", "c", "e", "s", "s", "i", "v", "e", " ", "e", "x", "c", "l", "a", "m", "a", "t", "i", "o", "n", " ", "m", "a", "r", "k", "s", " ", "(">>
                   \o NumberToString(exclamationCount) \o <<")">>)
          ELSE details
      details2 ==
        IF Len(foundPatterns) > 0
          THEN Append(details1,
                 <<"C", "l", "i", "c", "k", "b", "a", "i", "t", " ", "p", "a", "t", "t", "e", "r", "n", "s", ":", " ">>
                   \o join(slice0(foundPatterns, 2), <<",", " ">>))
          ELSE details1
  IN [score |-> min(score2, 100), details |-> details2]

calculateClickbaitScore(lowerContent, content, details) ==
  LET matches == [k \in 1..Len(CLICKBAIT_PATTERNS) |->
                    match(content, CLICKBAIT_PATTERNS[k])]
      matched == SelectSeq(matches, LAMBDA m : m.found)
      foundPatterns == [k \in 1..Len(matched) |-> matched[k].text]
      score1 == 25 * Len(foundPatterns)
      exclamationCount == exclamationCountOf(content)
      score2 == IF exclamationCount > 5 THEN score1 + 20 ELSE score1
      details1 ==
        IF exclamationCount > 5
          THEN Append(details,
                 <<"E", "x", "c", "e", "s", "s", "i", "v", "e", " ", "e", "x", "c", "l", "a", "m", "a", "t", "i", "o", "n", " ", "m", "a", "r", "k", "s", " ", "(">>
                   \o NumberToString(exclamationCount) \o <<")">>)
          ELSE details
      details2 ==
        IF Len(foundPatterns) > 0
          THEN Append(details1,
                 <<"C", "l", "i", "c", "k", "b", "a", "i", "t", " ", "p", "a", "t", "t", "e", "r", "n", "s", ":", " ">>
                   \o join(slice0(foundPatterns, 2), <<",", " ">>))
          ELSE details1
  IN [score |-> min(score2, 100), details |-> details2]

\* Math.floor in the place of Math.round
MathFloor(num, den) == num \div den

\* Math.round of the quotient num / den of two naturals, den > 0: the
\* nearest integer, a half rounded up
MathRound(num, den) == (2 * num + den) \div (2 * den)

\* calculateLowEffortScore with the short-content rule reaching up to 100
\* words, so that it overlaps the long-sentence rule
calculateLowEffortScoreUnder100(content, words, sentences, details) ==
  LET score1 == IF Len(words) < 100 THEN 40 ELSE 0
      details1 ==
        IF Len(words) < 100
          THEN Append(details,
                 <<"V", "e", "r", "y", " ", "s", "h", "o", "r", "t", " ", "c", "o", "n", "t", "e", "n", "t", " ", "(">>
                   \o NumberToString(Len(words)) \o <<" ", "w", "o", "r", "d", "s", ")">>)
          ELSE details
      divisor == max(Len(sentences), 1)
      longSentences == Len(words) > 50 * divisor
      score2 == IF longSentences THEN score1 + 30 ELSE score1
      details2 ==
        IF longSentences
          THEN Append(details1,
                 <<"U", "n", "u", "s", "u", "a", "l", "l", "y", " ", "l", "o", "n", "g", " ", "s", "e", "n", "t", "e", "n", "c", "e", "s", " ", "(", "a", "v", "g", " ">>
                   \o NumberToString(MathRound(Len(words), divisor))
                   \o <<" ", "w", "o", "r", "d", "s", ")">>)
          ELSE details1
      noStructure == Len(sentences) < 3 /\ Len(words) > 30
      score3 == IF noStructure THEN score2 + 20 ELSE score2
      details3 ==
        IF noStructure
          THEN Append(details2, <<"L", "a", "c", "k", "s", " ", "p", "r", "o", "p", "e", "r", " ", "s", "e", "n", "t", "e", "n", "c", "e", " ", "s", "t", "r", "u", "c", "t", "u", "r", "e">>)
          ELSE details2
  IN [score |-> min(score3, 100), details |-> details3]

\* calculateLowEffortScore with the three thresholds included: 50 words are
\* short, an average of 50 is long and 30 words are enough for the third rule
calculateLowEffortScoreInclusive(content, words, sentences, details) ==
  LET score1 == IF Len(words) <= 50 THEN 40 ELSE 0
      details1 ==
        IF Len(words) <= 50
          THEN Append(details,
                 <<"V", "e", "r", "y", " ", "s", "h", "o", "r", "t", " ", "c", "o", "n", "t", "e", "n", "t", " ", "(">>
                   \o NumberToString(Len(words)) \o <<" ", "w", "o", "r", "d", "s", ")">>)
          ELSE details
      divisor == max(Len(sentences), 1)
      longSentences == Len(words) >= 50 * divisor
      score2 == IF longSentences THEN score1 + 30 ELSE score1
      details2 ==
        IF longSentences
          THEN Append(details1,
                 <<"U", "n", "u", "s", "u", "a", "l", "l", "y", " ", "l", "o", "n", "g", " ", "s", "e", "n", "t", "e", "n", "c", "e", "s", " ", "(", "a", "v", "g", " ">>
                   \o NumberToString(MathRound(Len(words), divisor))
                   \o <<" ", "w", "o", "r", "d", "s", ")">>)
          ELSE details1
      noStructure == Len(sentences) < 3 /\ Len(words) >= 30
      score3 == IF noStructure THEN score2 + 20 ELSE score2
      details3 ==
        IF noStructure
          THEN Append(details2, <<"L", "a", "c", "k", "s", " ", "p", "r", "o", "p", "e", "r", " ", "s", "e", "n", "t", "e", "n", "c", "e", " ", "s", "t", "r", "u", "c", "t", "u", "r", "e">>)
          ELSE details2
  IN [score |-> min(score3, 100), details |-> details3]

calculateLowEffortScore(content, words, sentences, details) ==
  LET score1 == IF Len(words) < 50 THEN 40 ELSE 0
      details1 ==
        IF Len(words) < 50
          THEN Append(details,
                 <<"V", "e", "r", "y", " ", "s", "h", "o", "r", "t", " ", "c", "o", "n", "t", "e", "n", "t", " ", "(">>
                   \o NumberToString(Len(words)) \o <<" ", "w", "o", "r", "d", "s", ")">>)
          ELSE details
      \* avgSentenceLength is the quotient words.length / divisor
      divisor == max(Len(sentences), 1)
      longSentences == Len(words) > 50 * divisor
      score2 == IF longSentences THEN score1 + 30 ELSE score1
      details2 ==
        IF longSentences
          THEN Append(details1,
                 <<"U", "n", "u", "s", "u", "a", "l", "l", "y", " ", "l", "o", "n", "g", " ", "s", "e", "n", "t", "e", "n", "c", "e", "s", " ", "(", "a", "v", "g", " ">>
                   \o NumberToString(MathRound(Len(words), divisor))
                   \o <<" ", "w", "o", "r", "d", "s", ")">>)
          ELSE details1
      noStructure == Len(sentences) < 3 /\ Len(words) > 30
      score3 == IF noStructure THEN score2 + 20 ELSE score2
      details3 ==
        IF noStructure
          THEN Append(details2, <<"L", "a", "c", "k", "s", " ", "p", "r", "o", "p", "e", "r", " ", "s", "e", "n", "t", "e", "n", "c", "e", " ", "s", "t", "r", "u", "c", "t", "u", "r", "e">>)
          ELSE details2
  IN [score |-> min(score3, 100), details |-> details3]

\* FILLER_REGEXES.forEach from the k-th regular expression on: every match
\* is added to fillerCount, and the call leaves its lastIndex in the regex
RECURSIVE countFillers(_, _, _, _)
countFillers(lowerContent, regexes, k, fillerCount) ==
  IF k > Len(FILLER_PHRASES) THEN [fillerCount |-> fillerCount, regexes |-> regexes]
  ELSE LET matches == matchAll(lowerContent, FILLER_PHRASES[k], regexes[k])
       IN countFillers(lowerContent,
                       [regexes EXCEPT ![k] = matches.lastIndex],
                       k + 1,
                       fillerCount + matches.length)

\* fillerCount >= length * (percent / 100)
reachesDensity(fillerCount, length, percent) == fillerCount * 100 >= length * percent

\* fillerCount > length * 0.05 and fillerCount > length * 0.02, compared in
\* hundredths: 0.05 and 0.02 as doubles lie above 5/100 and 2/100 by less
\* than one unit in the last place, so the products never fall below an
\* integer they should equal.
exceedsDensity(fillerCount, length, percent) == fillerCount * 100 > length * percent

\* calculateFluffScore with a second if in the place of the else if: a text
\* above 5 percent collects the points of both rules
calculateFluffScoreCumulative(lowerContent, words, details, regexes) ==
  LET counted == countFillers(lowerContent, regexes, 1, 0)
      fillerCount == counted.fillerCount
      high == exceedsDensity(fillerCount, Len(words), 5)
      moderate == exceedsDensity(fillerCount, Len(words), 2)
      score == (IF high THEN 50 ELSE 0) + (IF moderate THEN 25 ELSE 0)
      details1 ==
        IF high
          THEN Append(details,
                 <<"H", "i", "g", "h", " ", "f", "i", "l", "l", "e", "r", " ", "w", "o", "r", "d", " ", "u", "s", "a", "g", "e", " ", "(">>
                   \o NumberToString(fillerCount) \o <<" ", "f", "i", "l", "l", "e", "r", " ", "w", "o", "r", "d", "s", ")">>)
        ELSE IF moderate
          THEN Append(details,
                 <<"M", "o", "d", "e", "r", "a", "t", "e", " ", "f", "i", "l", "l", "e", "r", " ", "w", "o", "r", "d", " ", "u", "s", "a", "g", "e", " ", "(">>
                   \o NumberToString(fillerCount) \o <<" ", "f", "i", "l", "l", "e", "r", " ", "w", "o", "r", "d", "s", ")">>)
        ELSE details
  IN [score |-> min(score, 100), details |-> details1,
      regexes |-> counted.regexes]

\* regexes is the lastIndex of the RegExp objects of FILLER_REGEXES when the
\* call starts; the result carries their lastIndex when it returns.
calculateFluffScore(lowerContent, words, details, regexes) ==
  LET counted == countFillers(lowerContent, regexes, 1, 0)
      fillerCount == counted.fillerCount
      high == exceedsDensity(fillerCount, Len(words), 5)
      moderate == exceedsDensity(fillerCount, Len(words), 2)
      score == IF high THEN 50 ELSE IF moderate THEN 25 ELSE 0
      details1 ==
        IF high
          THEN Append(details,
                 <<"H", "i", "g", "h", " ", "f", "i", "l", "l", "e", "r", " ", "w", "o", "r", "d", " ", "u", "s", "a", "g", "e", " ", "(">>
                   \o NumberToString(fillerCount) \o <<" ", "f", "i", "l", "l", "e", "r", " ", "w", "o", "r", "d", "s", ")">>)
        ELSE IF moderate
          THEN Append(details,
                 <<"M", "o", "d", "e", "r", "a", "t", "e", " ", "f", "i", "l", "l", "e", "r", " ", "w", "o", "r", "d", " ", "u", "s", "a", "g", "e", " ", "(">>
                   \o NumberToString(fillerCount) \o <<" ", "f", "i", "l", "l", "e", "r", " ", "w", "o", "r", "d", "s", ")">>)
        ELSE details
  IN [score |-> min(score, 100), details |-> details1,
      regexes |-> counted.regexes]

(***************************************************************************)
(* analyzeSlopContent.                                                     *)
(***************************************************************************)
\* content.split(/\s+/) without the filter
wordsUnfiltered(content) == split(content, Whitespace)

\* content.split(/\s+/).filter(w => w.length > 0)
wordsOf(content) == SelectSeq(split(content, Whitespace), LAMBDA w : Len(w) > 0)

\* content.split(/[.!?]+/).filter(s => s.trim().length > 0)
sentencesOf(content) ==
  SelectSeq(split(content, SentenceEnd), LAMBDA t : Len(trim(t)) > 0)

\* the weighted sum of the factors in hundredths: the weights 0.25, 0.25,
\* 0.2, 0.15 and 0.15.  The factors are multiples of 5, and on all of them
\* the sum in doubles rounds as the exact sum does.
weightedSum(repetitiveness, aiGenerated, clickbait, lowEffort, fluff) ==
  repetitiveness * 25 + aiGenerated * 25 + clickbait * 20
    + lowEffort * 15 + fluff * 15

\* Body applied to the value of v, which is computed once: a local constant
\* of the code (const b = v; ... b ... b ...)
With(v, Body(_)) == CHOOSE r \in {Body(b) : b \in {v}} : TRUE

\* analyzeSlopContent with the clickbait scorer called before the other four
analyzeSlopContentReordered(content, regexes) ==
  With(toLowerCase(content), LAMBDA lowerContent :
  With(wordsOf(content), LAMBDA words :
  With(sentencesOf(content), LAMBDA sentences :
  With(calculateClickbaitScore(lowerContent, content, <<>>), LAMBDA click :
  With(calculateRepetitiveness(words, sentences, click.details), LAMBDA rep :
  With(calculateAIScore(lowerContent, rep.details), LAMBDA ai :
  With(calculateLowEffortScore(content, words, sentences, ai.details), LAMBDA low :
  With(calculateFluffScore(lowerContent, words, low.details, regexes), LAMBDA fluff :
    [result |->
       [score |-> MathRound(weightedSum(rep.score, ai.score, click.score,
                                        low.score, fluff.score), 100),
        factors |-> [repetitiveness |-> rep.score,
                     aiGenerated |-> ai.score,
                     clickbait |-> click.score,
                     lowEffort |-> low.score,
                     fluff |-> fluff.score],
        details |-> fluff.details],
     regexes |-> fluff.regexes]))))))))

analyzeSlopContent(content, regexes) ==
  With(toLowerCase(content), LAMBDA lowerContent :
  With(wordsOf(content), LAMBDA words :
  With(sentencesOf(content), LAMBDA sentences :
  With(calculateRepetitiveness(words, sentences, <<>>), LAMBDA rep :
  With(calculateAIScore(lowerContent, rep.details), LAMBDA ai :
  With(calculateClickbaitScore(lowerContent, content, ai.details), LAMBDA click :
  With(calculateLowEffortScore(content, words, sentences, click.details), LAMBDA low :
  With(calculateFluffScore(lowerContent, words, low.details, regexes), LAMBDA fluff :
    [result |->
       [score |-> MathRound(weightedSum(rep.score, ai.score, click.score,
                                        low.score, fluff.score), 100),
        factors |-> [repetitiveness |-> rep.score,
                     aiGenerated |-> ai.score,
                     clickbait |-> click.score,
                     lowEffort |-> low.score,
                     fluff |-> fluff.score],
        details |-> fluff.details],
     regexes |-> fluff.regexes]))))))))

(***************************************************************************)
(* The AI providers (src/lib/aiProviders.ts).  A provider function is an   *)
(* operator of what the caller passes and of the reply of the remote       *)
(* service; it yields the outcome of the promise it returns.  The optional *)
(* factors of a result are passed through and read nowhere; they are left  *)
(* out.                                                                    *)
(***************************************************************************)
Fulfilled(v) == [status |-> "fulfilled", value |-> v]

Rejected(message) == [status |-> "rejected", reason |-> message]

\* the JSON object of a reply that carries none
EmptyObject == [score |-> Undefined, reasoning |-> Undefined, confidence |-> Undefined]

\* a reply whose text parses to the JSON object json
JsonReply(json) == [kind |-> "json", json |-> json]

\* a reply that carries no JSON object: the request fails ("network error"),
\* the status is not ok ("http error"), the body has not the expected
\* structure ("bad structure"), the text holds no braces ("prose"), or the
\* text between the braces does not parse ("broken json")
FailedReply(kind) == [kind |-> kind, json |-> EmptyObject]

analyzeWithOpenAI(hasKey, reply) ==
  IF ~hasKey THEN Rejected(<<"O", "p", "e", "n", "A", "I", " ", "A", "P", "I", " ", "k", "e", "y", " ", "n", "o", "t", " ", "c", "o", "n", "f", "i", "g", "u", "r", "e", "d">>)
  ELSE IF reply.kind = "network error" THEN Rejected(<<"f", "e", "t", "c", "h", " ", "f", "a", "i", "l", "e", "d">>)
  ELSE IF reply.kind = "http error" THEN Rejected(<<"O", "p", "e", "n", "A", "I", " ", "A", "P", "I", " ", "e", "r", "r", "o", "r">>)
  ELSE IF reply.kind = "bad structure"
    THEN Rejected(<<"I", "n", "v", "a", "l", "i", "d", " ", "r", "e", "s", "p", "o", "n", "s", "e", " ", "s", "t", "r", "u", "c", "t", "u", "r", "e", " ", "f", "r", "o", "m", " ", "O", "p", "e", "n", "A", "I", " ", "A", "P", "I">>)
  ELSE IF reply.kind \in {"prose", "broken json"}
    THEN Rejected(<<"F", "a", "i", "l", "e", "d", " ", "t", "o", " ", "p", "a", "r", "s", "e", " ", "O", "p", "e", "n", "A", "I", " ", "r", "e", "s", "p", "o", "n", "s", "e", " ", "a", "s", " ", "J", "S", "O", "N">>)
  ELSE IF reply.json.score.type # "number"
    THEN Rejected(<<"O", "p", "e", "n", "A", "I", " ", "r", "e", "s", "p", "o", "n", "s", "e", " ", "m", "i", "s", "s", "i", "n", "g", " ", "r", "e", "q", "u", "i", "r", "e", "d", " ", "\"", "s", "c", "o", "r", "e", "\"", " ", "f", "i", "e", "l", "d">>)
  ELSE Fulfilled(
         [provider |-> <<"O", "p", "e", "n", "A", "I">>,
          score |-> OrElse(reply.json.score, NumV(Num(50, 1))).value,
          reasoning |-> OrElse(reply.json.reasoning, Str(<<"N", "o", " ", "r", "e", "a", "s", "o", "n", "i", "n", "g", " ", "p", "r", "o", "v", "i", "d", "e", "d">>)).value,
          confidence |-> OrElse(reply.json.confidence, NumV(Num(8, 10))).value])

analyzeWithAnthropic(hasKey, reply) ==
  IF ~hasKey THEN Rejected(<<"A", "n", "t", "h", "r", "o", "p", "i", "c", " ", "A", "P", "I", " ", "k", "e", "y", " ", "n", "o", "t", " ", "c", "o", "n", "f", "i", "g", "u", "r", "e", "d">>)
  ELSE IF reply.kind = "network error" THEN Rejected(<<"f", "e", "t", "c", "h", " ", "f", "a", "i", "l", "e", "d">>)
  ELSE IF reply.kind = "http error" THEN Rejected(<<"A", "n", "t", "h", "r", "o", "p", "i", "c", " ", "A", "P", "I", " ", "e", "r", "r", "o", "r">>)
  ELSE IF reply.kind = "bad structure"
    THEN Rejected(<<"I", "n", "v", "a", "l", "i", "d", " ", "r", "e", "s", "p", "o", "n", "s", "e", " ", "s", "t", "r", "u", "c", "t", "u", "r", "e", " ", "f", "r", "o", "m", " ", "A", "n", "t", "h", "r", "o", "p", "i", "c", " ", "A", "P", "I">>)
  ELSE IF reply.kind = "prose"
    THEN Rejected(<<"C", "o", "u", "l", "d", " ", "n", "o", "t", " ", "f", "i", "n", "d", " ", "J", "S", "O", "N", " ", "o", "b", "j", "e", "c", "t", " ", "i", "n", " ", "A", "n", "t", "h", "r", "o", "p", "i", "c", " ", "r", "e", "s", "p", "o", "n", "s", "e">>)
  ELSE IF reply.kind = "broken json"
    THEN Rejected(<<"F", "a", "i", "l", "e", "d", " ", "t", "o", " ", "p", "a", "r", "s", "e", " ", "A", "n", "t", "h", "r", "o", "p", "i", "c", " ", "r", "e", "s", "p", "o", "n", "s", "e", " ", "a", "s", " ", "J", "S", "O", "N">>)
  ELSE IF reply.json.score.type # "number"
    THEN Rejected(<<"A", "n", "t", "h", "r", "o", "p", "i", "c", " ", "r", "e", "s", "p", "o", "n", "s", "e", " ", "m", "i", "s", "s", "i", "n", "g", " ", "r", "e", "q", "u", "i", "r", "e", "d", " ", "\"", "s", "c", "o", "r", "e", "\"", " ", "f", "i", "e", "l", "d">>)
  ELSE Fulfilled(
         [provider |-> <<"A", "n", "t", "h", "r", "o", "p", "i", "c">>,
          score |-> OrElse(reply.json.score, NumV(Num(50, 1))).value,
          reasoning |-> OrElse(reply.json.reasoning, Str(<<"N", "o", " ", "r", "e", "a", "s", "o", "n", "i", "n", "g", " ", "p", "r", "o", "v", "i", "d", "e", "d">>)).value,
          confidence |-> OrElse(reply.json.confidence, NumV(Num(8, 10))).value])

\* `${flag}` of a boolean
BooleanToString(flag) == IF flag THEN <<"t", "r", "u", "e">> ELSE <<"f", "a", "l", "s", "e">>

analyzeWithMock(content) ==
  LET words == Len(split(content, Whitespace))
      hasAIPhrases ==
        \/ includes(toLowerCase(content), <<"d", "e", "l", "v", "e", " ", "i", "n", "t", "o">>)
        \/ includes(toLowerCase(content), <<"d", "i", "v", "e", " ", "d", "e", "e", "p">>)
        \/ includes(toLowerCase(content), <<"c", "o", "m", "p", "r", "e", "h", "e", "n", "s", "i", "v", "e", " ", "g", "u", "i", "d", "e">>)
      hasClickbait ==
        \/ includes(toLowerCase(content), <<"y", "o", "u", " ", "w", "o", "n", "'", "t", " ", "b", "e", "l", "i", "e", "v", "e">>)
        \/ includes(toLowerCase(content), <<"s", "h", "o", "c", "k", "i", "n", "g">>)
      score == 30 + (IF hasAIPhrases THEN 20 ELSE 0) + (IF hasClickbait THEN 25 ELSE 0)
                  + (IF words < 50 THEN 15 ELSE 0)
  IN Fulfilled(
       [provider |-> <<"M", "o", "c", "k">>,
        score |-> Num(min(score, 100), 1),
        reasoning |-> <<"M", "o", "c", "k", " ", "a", "n", "a", "l", "y", "s", "i", "s", " ", "b", "a", "s", "e", "d", " ", "o", "n", " ">> \o NumberToString(words)
                        \o <<" ", "w", "o", "r", "d", "s", ",", " ", "A", "I", " ", "p", "h", "r", "a", "s", "e", "s", ":", " ">> \o BooleanToString(hasAIPhrases)
                        \o <<",", " ", "c", "l", "i", "c", "k", "b", "a", "i", "t", ":", " ">> \o BooleanToString(hasClickbait),
        confidence |-> Num(7, 10)])

\* the keys of PROVIDER_IMPLEMENTATIONS
allowedProviders == <<<<"o", "p", "e", "n", "a", "i">>, <<"a", "n", "t", "h", "r", "o", "p", "i", "c">>, <<"m", "o", "c", "k">>>>

\* provider is [name, hasKey]: hasKey tells whether provider.apiKey or the
\* environment variable of the provider holds a key
analyzeWithNamedProvider(content, provider, reply) ==
  LET providerName == toLowerCase(provider.name)
  IN IF \A i \in 1..Len(allowedProviders) : allowedProviders[i] # providerName
       THEN Rejected(<<"U", "n", "k", "n", "o", "w", "n", " ", "p", "r", "o", "v", "i", "d", "e", "r">>)
     ELSE IF providerName = <<"o", "p", "e", "n", "a", "i">> THEN analyzeWithOpenAI(provider.hasKey, reply)
     ELSE IF providerName = <<"a", "n", "t", "h", "r", "o", "p", "i", "c">> THEN analyzeWithAnthropic(provider.hasKey, reply)
     ELSE analyzeWithMock(content)

\* whether the call of a provider sends a request and waits for its reply
sendsRequest(provider) ==
  /\ toLowerCase(provider.name) \in {<<"o", "p", "e", "n", "a", "i">>, <<"a", "n", "t", "h", "r", "o", "p", "i", "c">>}
  /\ provider.hasKey

(***************************************************************************)
(* The consensus module, lib/aiConsensus.  The repository holds two copies *)
(* of it (src/unnamed/part_005 and src/unnamed/part_006); the functions    *)
(* that differ between them take the copy as a parameter.                  *)
(***************************************************************************)
ConsensusCopies == {"part_005", "part_006"}

\* the insights of aggregateAIResults: one per result whose reasoning is
\* not empty and is not the reasoning of an earlier result
insightsOf(results) ==
  LET kept == SelectSeq(Indices(Len(results)),
                LAMBDA i : /\ results[i].reasoning # <<>>
                           /\ \A j \in 1..(i - 1) :
                                results[j].reasoning # results[i].reasoning)
  IN [k \in 1..Len(kept) |->
        results[kept[k]].provider \o <<":", " ">> \o results[kept[k]].reasoning]

\* what aggregateAIResults returns on the empty list
NoResultsConsensus ==
  [consensusScore |-> Num(0, 1),
   individualResults |-> <<>>,
   confidence |-> Num(0, 1),
   insights |-> <<<<"N", "o", " ", "A", "I", " ", "a", "n", "a", "l", "y", "s", "i", "s", " ", "r", "e", "s", "u", "l", "t", "s", " ", "a", "v", "a", "i", "l", "a", "b", "l", "e">>>>]

aggregateAIResultsUnweighted(results, copy) ==
  IF Len(results) = 0 THEN NoResultsConsensus
  ELSE [consensusScore |->
          MathRoundNum(NumDiv(
            reduceSum([i \in 1..Len(results) |-> results[i].score]),
            Num(Len(results), 1))),
        individualResults |-> results,
        confidence |->
          NumDiv(reduceSum([i \in 1..Len(results) |-> results[i].confidence]),
                 Num(Len(results), 1)),
        insights |-> insightsOf(results)]

aggregateAIResults(results, copy) ==
  LET totalWeight == reduceSum([i \in 1..Len(results) |-> results[i].confidence])
  IN IF Len(results) = 0 THEN NoResultsConsensus
     ELSE IF copy = "part_005" /\ totalWeight = Num(0, 1)
       THEN [consensusScore |-> Num(0, 1),
             individualResults |-> results,
             confidence |-> Num(0, 1),
             insights |-> <<<<"A", "l", "l", " ", "A", "I", " ", "p", "r", "o", "v", "i", "d", "e", "r", "s", " ", "r", "e", "t", "u", "r", "n", "e", "d", " ", "0", " ", "c", "o", "n", "f", "i", "d", "e", "n", "c", "e">>>>]
     ELSE [consensusScore |->
             MathRoundNum(NumDiv(
               reduceSum([i \in 1..Len(results) |->
                            NumMul(results[i].score, results[i].confidence)]),
               totalWeight)),
           individualResults |-> results,
           confidence |-> NumDiv(totalWeight, Num(Len(results), 1)),
           insights |-> insightsOf(results)]

\* ToNumber of a value: what the operator * makes of an operand.  Of the
\* strings only the empty one and those of digits are numbers.
RECURSIVE digitsValue(_)
digitsValue(s) ==
  IF Len(s) = 0 THEN 0
  ELSE 10 * digitsValue(SubSeq(s, 1, Len(s) - 1))
         + (CHOOSE n \in 0..9 : DigitChars[n + 1] = s[Len(s)])

ToNumber(v) ==
  CASE v.type = "undefined" -> NaN
    [] v.type = "number" -> v.value
    [] v.type = "string" ->
         IF \A i \in 1..Len(v.value) : v.value[i] \in Digits
           THEN Num(digitsValue(v.value), 1)
           ELSE NaN

weightOfUnset(weights, field) ==
  IF weights = Undefined THEN NumV(Num(1, 1))
  ELSE IF weights[field] = Undefined THEN NumV(Num(1, 1))
  ELSE weights[field]

\* config.weights?.internal ?? 0.5 and config.weights?.ai ?? 0.5; weights
\* is Undefined or a record of two values
weightOf(weights, field) ==
  IF weights = Undefined THEN NumV(Num(1, 2))
  ELSE IF weights[field] = Undefined THEN NumV(Num(1, 2))
  ELSE weights[field]

\* internalAnalysis.score is an integer of analyzeSlopContent
enrichWithAI(internalAnalysis, aiConsensus, config) ==
  LET internalWeight == weightOf(config.weights, "internal")
      aiWeight == weightOf(config.weights, "ai")
      finalScore ==
        IF config.includeInternal
          THEN MathRoundNum(NumAdd(
                 NumMul(Num(internalAnalysis.score, 1), ToNumber(internalWeight)),
                 NumMul(aiConsensus.consensusScore, ToNumber(aiWeight))))
          ELSE aiConsensus.consensusScore
  IN [score |-> internalAnalysis.score,
      factors |-> internalAnalysis.factors,
      details |-> internalAnalysis.details,
      aiConsensus |-> aiConsensus,
      finalScore |-> finalScore]

\* one branch of performAIConsensus: the promise of a provider call with
\* its then and catch handlers (part_005), or the try / catch around the
\* awaited call (part_006).  A failure becomes a value; the branch itself
\* is always fulfilled.
isolateNothing(outcome, provider) ==
  IF outcome.status = "fulfilled"
    THEN Fulfilled([status |-> "fulfilled", value |-> outcome.value])
  ELSE outcome

isolate(outcome, provider) ==
  IF outcome.status = "fulfilled"
    THEN Fulfilled([status |-> "fulfilled", value |-> outcome.value])
  ELSE Fulfilled([status |-> "rejected", reason |-> outcome.reason,
                  providerName |-> provider.name])

\* Promise.all: rejected with the reason of a rejected promise, fulfilled
\* with the values of the promises otherwise
PromiseAll(promises) ==
  IF \E i \in 1..Len(promises) : promises[i].status = "rejected"
    THEN Rejected(promises[CHOOSE i \in 1..Len(promises) :
                             /\ promises[i].status = "rejected"
                             /\ \A j \in 1..(i - 1) : promises[j].status # "rejected"].reason)
  ELSE Fulfilled([i \in 1..Len(promises) |-> promises[i].value])

\* the results performAIConsensus keeps: the values of the branches whose
\* call was fulfilled, in the order of the providers
gatherResultsAndFailures(settled) ==
  [i \in 1..Len(settled) |->
     IF settled[i].status = "fulfilled" THEN settled[i].value
     ELSE [provider |-> settled[i].providerName, score |-> Num(0, 1),
           reasoning |-> settled[i].reason, confidence |-> Num(0, 1)]]

gatherResults(settled) ==
  LET kept == SelectSeq(Indices(Len(settled)), LAMBDA i : settled[i].status = "fulfilled")
  IN [k \in 1..Len(kept) |-> settled[kept[k]].value]

\* performAIConsensus once every branch has settled: the promise it returns
performAIConsensus(branches, copy) ==
  IF PromiseAll(branches).status = "rejected" THEN PromiseAll(branches)
  ELSE Fulfilled(aggregateAIResults(gatherResults(PromiseAll(branches).value), copy))

\* the providers performAIConsensus calls before it first waits: all of
\* them (part_005: providers.map) or the first (part_006: for ... await)
invokedAtStart(n, copy) == IF copy = "part_005" THEN 1..n ELSE 1..min(n, 1)

(***************************************************************************)
(* The ai-analyze endpoint, POST of app/api/ai-analyze/route.ts.  The      *)
(* repository holds two copies of it (src/app/api/ai-analyze/route.ts and  *)
(* src/unnamed/part_003).                                                  *)
(***************************************************************************)
RouteCopies == {"route.ts", "part_003"}

\* useAI taken as true when a configuration leaves it out
useAIOfDefaultTrue(config) ==
  IF config = Undefined THEN FALSE
  ELSE IF config.useAI = Undefined THEN TRUE
  ELSE Truthy(config.useAI)

\* config?.useAI ?? false
useAIOf(config) ==
  IF config = Undefined THEN FALSE
  ELSE IF config.useAI = Undefined THEN FALSE
  ELSE Truthy(config.useAI)

\* part_003: the weights of the request made numbers in [0, 1] that sum to 1
normalizeWeights(weights) ==
  LET internal0 == ToNumber(weights.internal)
      ai0 == ToNumber(weights.ai)
      internal1 == IF ~isFinite(internal0) \/ NumLess(internal0, Num(0, 1))
                      \/ NumLess(Num(1, 1), internal0)
                   THEN Num(1, 2) ELSE internal0
      ai1 == IF ~isFinite(ai0) \/ NumLess(ai0, Num(0, 1)) \/ NumLess(Num(1, 1), ai0)
             THEN Num(1, 2) ELSE ai0
      sum == NumAdd(internal1, ai1)
  IN IF NumLess(Num(0, 1), sum)
       THEN [internal |-> NumV(NumDiv(internal1, sum)), ai |-> NumV(NumDiv(ai1, sum))]
     ELSE [internal |-> NumV(Num(1, 2)), ai |-> NumV(Num(1, 2))]

DEFAULT_AI_CONFIG ==
  [providers |-> <<>>,
   includeInternal |-> TRUE,
   weights |-> [internal |-> NumV(Num(1, 2)), ai |-> NumV(Num(1, 2))]]

\* aiConfig: DEFAULT_AI_CONFIG overridden by the configuration of the
\* request, whose weights part_003 normalizes first
aiConfigOf(config, copy) ==
  [providers |-> config.providers,
   includeInternal |->
     IF config.includeInternal = Undefined THEN DEFAULT_AI_CONFIG.includeInternal
     ELSE Truthy(config.includeInternal),
   weights |->
     IF config.weights = Undefined THEN DEFAULT_AI_CONFIG.weights
     ELSE IF copy = "part_003" THEN normalizeWeights(config.weights)
     ELSE config.weights]

\* the check of the content (a string): part_003 rejects a content that is
\* empty once trimmed, route.ts a content that is falsy, the empty string
contentRejected(content, copy) ==
  IF copy = "part_003" THEN Len(trim(content)) = 0 ELSE Len(content) = 0

\* the bodies of the responses
BadRequest(copy) ==
  [status |-> 400,
   error |-> IF copy = "part_003" THEN <<"C", "o", "n", "t", "e", "n", "t", " ", "m", "u", "s", "t", " ", "b", "e", " ", "a", " ", "n", "o", "n", "-", "e", "m", "p", "t", "y", " ", "s", "t", "r", "i", "n", "g">>
             ELSE <<"C", "o", "n", "t", "e", "n", "t", " ", "i", "s", " ", "r", "e", "q", "u", "i", "r", "e", "d">>,
   success |-> FALSE, analysis |-> Undefined, warning |-> Undefined, aiError |-> Undefined]

OkResponse(analysis) ==
  [status |-> 200, error |-> Undefined, success |-> TRUE, analysis |-> analysis,
   warning |-> Undefined, aiError |-> Undefined]

WarningResponse(analysis, aiError) ==
  [status |-> 200, error |-> Undefined, success |-> TRUE, analysis |-> analysis,
   warning |-> <<"A", "I", " ", "c", "o", "n", "s", "e", "n", "s", "u", "s", " ", "a", "n", "a", "l", "y", "s", "i", "s", " ", "n", "o", "t", " ", "a", "v", "a", "i", "l", "a", "b", "l", "e", ".", " ", "S", "h", "o", "w", "i", "n", "g", " ", "i", "n", "t", "e", "r", "n", "a", "l", " ", "a", "n", "a", "l", "y", "s", "i", "s", " ", "o", "n", "l", "y", ".">>,
   aiError |-> aiError]

\* the response once performAIConsensus has settled
respondAfterConsensus(internalAnalysis, performed, config) ==
  IF performed.status = "fulfilled"
    THEN OkResponse(enrichWithAI(internalAnalysis, performed.value, config))
  ELSE WarningResponse(internalAnalysis, performed.reason)

(***************************************************************************)
(* The inputs.  A text is made of at most MaxRuns runs, a run being a      *)
(* piece of the lexicon in use repeated one of its numbers of times.  Each *)
(* lexicon gathers the pieces that exercise one scorer; mixed has pieces   *)
(* that make several scorers fire on one text, extreme a sentence that     *)
(* brings every scorer to its largest value when it is written twice, and  *)
(* lengths texts at the thresholds of the low-effort rules.                *)
(***************************************************************************)
Lexicons == [
  repetition |-> <<
    [text |-> <<"T", "e", "s", "t", " ">>, counts |-> {5}],
    [text |-> <<"t", "e", "s", "t", ",", " ">>, counts |-> {1}],
    [text |-> <<"a", "b", "l", "e", " ", "b", "a", "k", "e", ",", " ", "c", "a", "k", "e", " ", "d", "a", "r", "e", " ">>, counts |-> {6}],
    [text |-> <<"e", "v", "e", "n", " ">>, counts |-> {7}],
    [text |-> <<"T", "h", "i", "s", " ", "i", "s", " ", "a", " ", "s", "e", "n", "t", "e", "n", "c", "e", ".", " ">>, counts |-> {1, 6}],
    [text |-> <<"t", "h", "i", "s", " ", "i", "s", " ", "a", " ", "s", "e", "n", "t", "e", "n", "c", "e", "!", "\n">>, counts |-> {1}],
    [text |-> <<"S", "h", "o", "r", "t", " ", "o", "n", "e", "s", ".", " ">>, counts |-> {2}] >>,
  phrases |-> <<
    [text |-> <<"l", "e", "v", "e", "r", "a", "g", "e", " ">>, counts |-> {1, 2}],
    [text |-> <<"D", "i", "v", "e", " ", "d", "e", "e", "p", ",", " ">>, counts |-> {1}],
    [text |-> <<"s", "y", "n", "e", "r", "g", "y">>, counts |-> {1}],
    [text |-> <<"I", "n", " ", "c", "o", "n", "c", "l", "u", "s", "i", "o", "n", ":", " ", "r", "e", "v", "o", "l", "u", "t", "i", "o", "n", "i", "z", "e", " ", "g", "a", "m", "e", "-", "c", "h", "a", "n", "g", "e", "r", " ">>, counts |-> {1}],
    [text |-> <<"m", "u", "l", "t", "i", "f", "a", "c", "e", "t", "e", "d", " ", "p", "a", "r", "a", "d", "i", "g", "m", " ", "s", "h", "i", "f", "t", " ", "u", "l", "t", "i", "m", "a", "t", "e", " ", "g", "u", "i", "d", "e", " ", "h", "o", "l", "i", "s", "t", "i", "c", " ", "a", "p", "p", "r", "o", "a", "c", "h", " ">>,
     counts |-> {1}] >>,
  clickbait |-> <<
    [text |-> <<"s", "h", "o", "c", "k", "i", "n", "g">>, counts |-> {1}],
    [text |-> <<"!">>, counts |-> {5, 6}],
    [text |-> <<"S", "h", "o", "c", "k", "i", "n", "g", "!", " ">>, counts |-> {1, 6}],
    [text |-> <<"Y", "o", "u", " ", "w", "o", "n", "'", "t", " ", "b", "e", "l", "i", "e", "v", "e", " ", "t", "h", "e", " ", "t", "r", "u", "t", "h", " ", "a", "b", "o", "u", "t", " ", "7", " ", "s", "e", "c", "r", "e", "t", "s", "\n">>, counts |-> {1}],
    [text |-> <<"n", "u", "m", "b", "e", "r", " ", "1", "0", " ", "w", "i", "l", "l", " ", "s", "h", "o", "c", "k", " ", "y", "o", "u", ",", " ", "w", "h", "a", "t", " ", "h", "a", "p", "p", "e", "n", "s", " ", "n", "e", "x", "t", "?", " ">>, counts |-> {1}] >>,
  fluff |-> <<
    [text |-> <<"a", " ">>, counts |-> {49, 94, 95}],
    [text |-> <<"u", "m", " ">>, counts |-> {1, 5, 6}] >>,
  mixed |-> <<
    [text |-> <<"T", "e", "s", "t", " ">>, counts |-> {6}],
    [text |-> <<"T", "h", "i", "s", " ", "i", "s", " ", "a", " ", "s", "e", "n", "t", "e", "n", "c", "e", ".", " ">>, counts |-> {2}],
    [text |-> <<"l", "e", "v", "e", "r", "a", "g", "e", " ">>, counts |-> {1}],
    [text |-> <<"s", "h", "o", "c", "k", "i", "n", "g", "!", " ">>, counts |-> {1, 6}],
    [text |-> <<"Y", "o", "u", " ", "k", "n", "o", "w", ",", " ", "l", "i", "k", "e", " ", "u", "m", "b", "r", "e", "l", "l", "a", " ">>, counts |-> {1}],
    [text |-> <<"a", " ">>, counts |-> {60}] >>,
  extreme |-> <<
    [text |-> <<"r", "e", "v", "o", "l", "u", "t", "i", "o", "n", "i", "z", "e", " ", "g", "a", "m", "e", "-", "c", "h", "a", "n", "g", "e", "r", " ", "m", "u", "l", "t", "i", "f", "a", "c", "e", "t", "e", "d", " ", "l", "e", "v", "e", "r", "a", "g", "e", " ", "s", "y", "n", "e", "r", "g", "y", " ">>
                \o <<"d", "i", "v", "e", " ", "d", "e", "e", "p", " ", "i", "n", " ", "c", "o", "n", "c", "l", "u", "s", "i", "o", "n", " ", "s", "h", "o", "c", "k", "i", "n", "g", " ", "s", "h", "o", "c", "k", "i", "n", "g", " ", "s", "h", "o", "c", "k", "i", "n", "g", " ">>
                \o <<"d", "o", "c", "t", "o", "r", "s", " ", "h", "a", "t", "e", " ", "7", " ", "s", "e", "c", "r", "e", "t", "s", " ", "t", "h", "i", "s", " ", "o", "n", "e", " ", "t", "r", "i", "c", "k", " ", "u", "m", " ", "u", "m", ".", " ">>,
     counts |-> {1, 2}],
    [text |-> <<"W", "e", "l", "l", ".", " ">>, counts |-> {1}],
    [text |-> <<"u", "m", " ">>, counts |-> {2}] >>,
  lengths |-> <<
    [text |-> <<"a", " ">>, counts |-> {30, 31, 50, 51}],
    [text |-> <<"I", "t", " ", "i", "s", ".", " ">>, counts |-> {1, 3}] >> ]

\* piece repeated n times
Repeat(piece, n) ==
  [i \in 1..(n * Len(piece)) |-> piece[((i - 1) % Len(piece)) + 1]]

\* the value of result while no analysis has returned
NoResult ==
  [score |-> 0,
   factors |-> [repetitiveness |-> 0, aiGenerated |-> 0, clickbait |-> 0,
                lowEffort |-> 0, fluff |-> 0],
   details |-> <<>>]

(***************************************************************************)
(* Each state machine below has its own variables; while one of them runs, *)
(* the variables of the others stay at rest.                               *)
(***************************************************************************)
SlopAtRest ==
  /\ lexicon = "mixed"
  /\ input = <<>>
  /\ nruns = 0
  /\ pc = "done"
  /\ result = NoResult
  /\ lastIndex = FILLER_REGEXES
  /\ earlierCalls = FALSE

RatingAtRest ==
  /\ shownScore = 0
  /\ rating = ""
  /\ color = ""

\* the reply and the outcome of a call that has received none
NoReply == FailedReply("none")

NoOutcome == [status |-> "pending"]

ProviderAtRest ==
  /\ calledProvider = [name |-> <<"m", "o", "c", "k">>, hasKey |-> FALSE]
  /\ callContent = <<>>
  /\ serviceReply = NoReply
  /\ providerPc = "idle"
  /\ callOutcome = NoOutcome

\* the values of aggregated and of enriched before the calls
NoConsensus ==
  [consensusScore |-> Num(0, 1), individualResults |-> <<>>,
   confidence |-> Num(0, 1), insights |-> <<>>]

NoConfig == [includeInternal |-> TRUE, weights |-> Undefined]

NotEnriched ==
  [score |-> 0, factors |-> NoResult.factors, details |-> <<>>,
   aiConsensus |-> NoConsensus, finalScore |-> Num(0, 1)]

ConsensusAtRest ==
  /\ libCopy = "part_005"
  /\ givenResults = <<>>
  /\ aggregated = NoConsensus
  /\ givenAnalysis = NoResult
  /\ givenConfig = NoConfig
  /\ enriched = NotEnriched
  /\ libPc = "collect"

NoRequest == [content |-> <<>>, config |-> Undefined]

NoResponse ==
  [status |-> 0, error |-> Undefined, success |-> FALSE, analysis |-> Undefined,
   warning |-> Undefined, aiError |-> Undefined]

RouteAtRest ==
  /\ routeCopy = "part_003"
  /\ consensusCopy = "part_005"
  /\ request = NoRequest
  /\ routeInternal = NoResult
  /\ aiConfig = DEFAULT_AI_CONFIG
  /\ callState = <<>>
  /\ invocations = <<>>
  /\ rawOutcome = <<>>
  /\ branch = <<>>
  /\ consensusPromise = NoOutcome
  /\ response = NoResponse
  /\ routePc = "received"

\* useState<... | null>(null)
Null == [kind |-> "null"]

PageAtRest ==
  /\ pageCopy = "route.ts"
  /\ inputType = "text"
  /\ textContent = <<>>
  /\ youtubeUrl = <<>>
  /\ loading = FALSE
  /\ pageAnalysis = Null
  /\ pageError = <<>>
  /\ pageUseAI = FALSE
  /\ aiWarning = <<>>
  /\ handlers = <<>>
  /\ clearedBySwitch = FALSE

(***************************************************************************)
(* The state machine: a caller composes a text, calls analyzeSlopContent   *)
(* on it, and may call again with another text.  lastIndex is the state of *)
(* the module-level FILLER_REGEXES, the only state that outlives a call;   *)
(* earlierCalls tells whether a call has returned before the current text. *)
(***************************************************************************)
Init ==
  /\ lexicon \in DOMAIN Lexicons
  /\ input = <<>>
  /\ nruns = 0
  /\ pc = "compose"
  /\ result = NoResult
  /\ lastIndex = FILLER_REGEXES
  /\ earlierCalls = FALSE
  /\ RatingAtRest
  /\ ProviderAtRest
  /\ ConsensusAtRest
  /\ RouteAtRest
  /\ PageAtRest

\* the caller extends the text by one run
Compose(p, n) ==
  /\ pc = "compose"
  /\ nruns < MaxRuns
  /\ input' = input \o Repeat(Lexicons[lexicon][p].text, n)
  /\ nruns' = nruns + 1
  /\ UNCHANGED <<lexicon, pc, result, lastIndex, earlierCalls>>
  /\ UNCHANGED outsideSlop

\* the call analyzeSlopContent(input)
Analyze ==
  /\ pc = "compose"
  /\ \E r \in {analyzeSlopContent(input, lastIndex)} :
       /\ result' = r.result
       /\ lastIndex' = r.regexes
  /\ pc' = "done"
  /\ UNCHANGED <<lexicon, input, nruns, earlierCalls>>
  /\ UNCHANGED outsideSlop

\* the caller turns to the next text
NextCall ==
  /\ pc = "done"
  /\ input' = <<>>
  /\ nruns' = 0
  /\ result' = NoResult
  /\ pc' = "compose"
  /\ earlierCalls' = TRUE
  /\ UNCHANGED <<lexicon, lastIndex>>
  /\ UNCHANGED outsideSlop

Next ==
  \/ \E p \in 1..Len(Lexicons[lexicon]) :
       \E n \in Lexicons[lexicon][p].counts : Compose(p, n)
  \/ Analyze
  \/ NextCall

Spec == Init /\ [][Next]_vars

TypeOK ==
  /\ lexicon \in DOMAIN Lexicons
  /\ pc \in {"compose", "done"}
  /\ nruns \in 0..MaxRuns
  /\ earlierCalls \in BOOLEAN
  /\ result.score \in 0..100

(***************************************************************************)
(* getSlopRating and getSlopColor (src/lib/slopDetector.ts), and the page  *)
(* that shows a score with its rating and its colour class.                *)
(***************************************************************************)
getSlopRatingExclusive(score) ==
  IF score > 80 THEN "Extreme Slop"
  ELSE IF score > 60 THEN "High Slop"
  ELSE IF score > 40 THEN "Moderate Slop"
  ELSE IF score > 20 THEN "Low Slop"
  ELSE "Minimal Slop"

getSlopRating(score) ==
  IF score >= 80 THEN "Extreme Slop"
  ELSE IF score >= 60 THEN "High Slop"
  ELSE IF score >= 40 THEN "Moderate Slop"
  ELSE IF score >= 20 THEN "Low Slop"
  ELSE "Minimal Slop"

getSlopColor(score) ==
  IF score >= 80 THEN "text-red-600"
  ELSE IF score >= 60 THEN "text-orange-600"
  ELSE IF score >= 40 THEN "text-yellow-600"
  ELSE IF score >= 20 THEN "text-blue-600"
  ELSE "text-green-600"

\* a score is shown; neither function has been called on it yet
RatingInit ==
  /\ shownScore \in 0..MaxScore
  /\ rating = ""
  /\ color = ""
  /\ SlopAtRest
  /\ ProviderAtRest
  /\ ConsensusAtRest
  /\ RouteAtRest
  /\ PageAtRest

\* the call getSlopRating(shownScore)
GetSlopRating ==
  /\ rating = ""
  /\ rating' = getSlopRating(shownScore)
  /\ UNCHANGED <<shownScore, color>>
  /\ UNCHANGED outsideRating

\* the call getSlopColor(shownScore)
GetSlopColor ==
  /\ color = ""
  /\ color' = getSlopColor(shownScore)
  /\ UNCHANGED <<shownScore, rating>>
  /\ UNCHANGED outsideRating

RatingNext ==
  \/ GetSlopRating
  \/ GetSlopColor

RatingSpec == RatingInit /\ [][RatingNext]_vars

(***************************************************************************)
(* One call of analyzeWithNamedProvider (src/lib/aiProviders.ts): the      *)
(* caller names a provider, the provider function sends its request if it  *)
(* has a key, and the reply of the service settles the call.  The mock     *)
(* provider sends nothing and settles when its timer fires.                *)
(***************************************************************************)
\* the providers a configuration may name
Providers ==
  {[name |-> n, hasKey |-> h] :
     n \in {<<"o", "p", "e", "n", "a", "i">>, <<"O", "p", "e", "n", "A", "I">>, <<"A", "n", "t", "h", "r", "o", "p", "i", "c">>, <<"m", "o", "c", "k">>, <<"g", "e", "m", "i", "n", "i">>},
     h \in BOOLEAN}

\* the texts the providers are called on
ProviderContents == {<<>>, <<"S", "h", "o", "c", "k", "i", "n", "g", "!", " ", "D", "i", "v", "e", " ", "d", "e", "e", "p">>, Repeat(<<"a", " ">>, 50)}

\* the JSON objects a service may answer with: the score is absent, a
\* string or a number; so is the confidence; the reasoning is absent or a
\* text
JsonObjects ==
  {[score |-> s, reasoning |-> r, confidence |-> c] :
     s \in {Undefined, Str(<<"8", "5">>)} \cup {NumV(Num(n, 1)) : n \in 0..MaxScore},
     r \in {Undefined, Str(<<"F", "o", "r", "m", "u", "l", "a", "i", "c">>)},
     c \in {Undefined, NumV(Num(0, 1)), NumV(Num(1, 2)), NumV(Num(1, 1))}}

Replies ==
  {FailedReply(kind) :
     kind \in {"network error", "http error", "bad structure", "prose", "broken json"}}
    \cup {JsonReply(json) : json \in JsonObjects}

ProviderInit ==
  /\ calledProvider \in Providers
  /\ callContent \in ProviderContents
  /\ serviceReply = NoReply
  /\ providerPc = "idle"
  /\ callOutcome = NoOutcome
  /\ SlopAtRest
  /\ RatingAtRest
  /\ ConsensusAtRest
  /\ RouteAtRest
  /\ PageAtRest

\* analyzeWithNamedProvider is called: it fails at once (unknown provider,
\* no key), starts the timer of the mock, or sends the request
CallProvider ==
  /\ providerPc = "idle"
  /\ \/ /\ sendsRequest(calledProvider)
        /\ providerPc' = "fetching"
        /\ UNCHANGED callOutcome
     \/ /\ toLowerCase(calledProvider.name) = <<"m", "o", "c", "k">>
        /\ providerPc' = "waiting"
        /\ UNCHANGED callOutcome
     \/ /\ ~sendsRequest(calledProvider)
        /\ toLowerCase(calledProvider.name) # <<"m", "o", "c", "k">>
        /\ providerPc' = "settled"
        /\ callOutcome' = analyzeWithNamedProvider(callContent, calledProvider, NoReply)
  /\ UNCHANGED <<calledProvider, callContent, serviceReply>>
  /\ UNCHANGED outsideProvider

\* the service replies and the provider function runs to its end
ReceiveReply(r) ==
  /\ providerPc = "fetching"
  /\ serviceReply' = r
  /\ callOutcome' = analyzeWithNamedProvider(callContent, calledProvider, r)
  /\ providerPc' = "settled"
  /\ UNCHANGED <<calledProvider, callContent>>
  /\ UNCHANGED outsideProvider

\* the timer of the mock provider fires
TimerFires ==
  /\ providerPc = "waiting"
  /\ callOutcome' = analyzeWithNamedProvider(callContent, calledProvider, NoReply)
  /\ providerPc' = "settled"
  /\ UNCHANGED <<calledProvider, callContent, serviceReply>>
  /\ UNCHANGED outsideProvider

ProviderNext ==
  \/ CallProvider
  \/ \E r \in Replies : ReceiveReply(r)
  \/ TimerFires

ProviderSpec == ProviderInit /\ [][ProviderNext]_vars

(***************************************************************************)
(* aggregateAIResults and enrichWithAI as functions of the module: a       *)
(* caller collects provider results, aggregates them, and enriches an      *)
(* internal analysis with the consensus under a configuration.             *)
(***************************************************************************)
\* the results handed to aggregateAIResults: confidences 0, 1/2 and 1, a
\* reasoning shared by two providers, and an empty reasoning
ResultValues ==
  {[provider |-> <<"O", "p", "e", "n", "A", "I">>, score |-> Num(45, 1),
    reasoning |-> <<"F", "o", "r", "m", "u", "l", "a", "i", "c">>, confidence |-> Num(1, 2)],
   [provider |-> <<"A", "n", "t", "h", "r", "o", "p", "i", "c">>, score |-> Num(100, 1),
    reasoning |-> <<"F", "o", "r", "m", "u", "l", "a", "i", "c">>, confidence |-> Num(1, 1)],
   [provider |-> <<"M", "o", "c", "k">>, score |-> Num(80, 1),
    reasoning |-> <<>>, confidence |-> Num(1, 2)],
   [provider |-> <<"O", "p", "e", "n", "A", "I">>, score |-> Num(0, 1),
    reasoning |-> <<"C", "l", "e", "a", "n">>, confidence |-> Num(0, 1)],
   [provider |-> <<"A", "n", "t", "h", "r", "o", "p", "i", "c">>, score |-> Num(100, 1),
    reasoning |-> <<"C", "l", "e", "a", "n">>, confidence |-> Num(0, 1)]}

\* the internal analyses handed to enrichWithAI
Analyses ==
  {analyzeSlopContent(c, FILLER_REGEXES).result : c \in {<<>>, <<"S", "h", "o", "c", "k", "i", "n", "g", "!", " ", "D", "i", "v", "e", " ", "d", "e", "e", "p">>}}

\* the configurations handed to enrichWithAI
WeightRecords(values) == {[internal |-> a, ai |-> b] : a \in values, b \in values}

Configs ==
  {[includeInternal |-> b, weights |-> w] :
     b \in BOOLEAN,
     w \in {Undefined}
            \cup WeightRecords({Undefined, NumV(Num(3, 10)), NumV(Num(1, 1))})}

ConsensusInit ==
  /\ libCopy \in ConsensusCopies
  /\ givenResults = <<>>
  /\ aggregated = NoConsensus
  /\ givenAnalysis = NoResult
  /\ givenConfig = NoConfig
  /\ enriched = NotEnriched
  /\ libPc = "collect"
  /\ SlopAtRest
  /\ RatingAtRest
  /\ ProviderAtRest
  /\ RouteAtRest
  /\ PageAtRest

\* the caller adds a provider result to the list
AddResult(r) ==
  /\ libPc = "collect"
  /\ Len(givenResults) < MaxResults
  /\ givenResults' = Append(givenResults, r)
  /\ UNCHANGED <<libCopy, aggregated, givenAnalysis, givenConfig, enriched, libPc>>
  /\ UNCHANGED outsideConsensus

\* the call aggregateAIResults(givenResults)
Aggregate ==
  /\ libPc = "collect"
  /\ aggregated' = aggregateAIResults(givenResults, libCopy)
  /\ libPc' = "aggregated"
  /\ UNCHANGED <<libCopy, givenResults, givenAnalysis, givenConfig, enriched>>
  /\ UNCHANGED outsideConsensus

\* the call enrichWithAI(a, aggregated, c)
Enrich(a, c) ==
  /\ libPc = "aggregated"
  /\ givenAnalysis' = a
  /\ givenConfig' = c
  /\ enriched' = enrichWithAI(a, aggregated, c)
  /\ libPc' = "enriched"
  /\ UNCHANGED <<libCopy, givenResults, aggregated>>
  /\ UNCHANGED outsideConsensus

ConsensusNext ==
  \/ \E r \in ResultValues : AddResult(r)
  \/ Aggregate
  \/ \E a \in Analyses : \E c \in Configs : Enrich(a, c)

ConsensusSpec == ConsensusInit /\ [][ConsensusNext]_vars

(***************************************************************************)
(* One request to the ai-analyze endpoint.  POST runs to its first wait:   *)
(* it answers at once (bad content, no AI requested) or starts             *)
(* performAIConsensus, whose provider calls settle one by one in any order *)
(* (part_005) or one after the other (part_006); when all have settled,    *)
(* performAIConsensus returns and POST answers.  Providers are as typed    *)
(* (AIProvider, the name a string).                                        *)
(***************************************************************************)
\* the providers a request may configure
RouteProviders ==
  {[name |-> <<"O", "p", "e", "n", "A", "I">>, hasKey |-> TRUE],
   [name |-> <<"a", "n", "t", "h", "r", "o", "p", "i", "c">>, hasKey |-> TRUE],
   [name |-> <<"m", "o", "c", "k">>, hasKey |-> FALSE]}

\* the lists of at most n providers
RECURSIVE ProviderLists(_)
ProviderLists(n) ==
  IF n = 0 THEN {<<>>}
  ELSE ProviderLists(n - 1)
         \cup {Append(l, p) : l \in {m \in ProviderLists(n - 1) : Len(m) = n - 1},
                              p \in RouteProviders}

\* the weights a request may carry: absent, not a number, out of range, in
\* range
RouteWeightValues ==
  {Undefined, Str(<<"a", "b", "c">>), NumV(Num(0, 1)), NumV(Num(3, 10)), NumV(Num(2, 1))}

RouteConfigs ==
  {Undefined}
    \cup {[useAI |-> u, providers |-> ps, includeInternal |-> inc, weights |-> w] :
            u \in {Undefined, BoolV(FALSE), BoolV(TRUE)},
            ps \in ProviderLists(MaxProviders),
            inc \in {Undefined, BoolV(FALSE)},
            w \in {Undefined} \cup WeightRecords(RouteWeightValues)}

Requests ==
  {[content |-> <<>>, config |-> Undefined],
   [content |-> <<" ", "\n">>, config |-> Undefined]}
    \cup {[content |-> <<"S", "h", "o", "c", "k", "i", "n", "g", "!", " ", "D", "i", "v", "e", " ", "d", "e", "e", "p">>, config |-> c] : c \in RouteConfigs}

\* the replies of the services to the provider calls of a request
RouteReplies ==
  {FailedReply("http error"),
   JsonReply([score |-> NumV(Num(40, 1)), reasoning |-> Undefined,
              confidence |-> Undefined]),
   JsonReply([score |-> NumV(Num(100, 1)), reasoning |-> Str(<<"F", "o", "r", "m", "u", "l", "a", "i", "c">>),
              confidence |-> NumV(Num(1, 1))])}

RouteInit ==
  /\ routeCopy \in RouteCopies
  /\ consensusCopy \in ConsensusCopies
  /\ request \in Requests
  /\ routeInternal = NoResult
  /\ aiConfig = DEFAULT_AI_CONFIG
  /\ callState = <<>>
  /\ invocations = <<>>
  /\ rawOutcome = <<>>
  /\ branch = <<>>
  /\ consensusPromise = NoOutcome
  /\ response = NoResponse
  /\ routePc = "received"
  /\ SlopAtRest
  /\ RatingAtRest
  /\ ProviderAtRest
  /\ ConsensusAtRest
  /\ PageAtRest

\* POST: the content is refused
RejectRequest ==
  /\ routePc = "received"
  /\ contentRejected(request.content, routeCopy)
  /\ response' = BadRequest(routeCopy)
  /\ routePc' = "responded"
  /\ UNCHANGED <<routeCopy, consensusCopy, request, routeInternal, aiConfig, callState,
                 invocations, rawOutcome, branch, consensusPromise>>
  /\ UNCHANGED outsideRoute

\* POST: no AI consensus is requested
AnswerInternal ==
  /\ routePc = "received"
  /\ ~contentRejected(request.content, routeCopy)
  /\ ~useAIOf(request.config)
  /\ \E r \in {analyzeSlopContent(request.content, FILLER_REGEXES).result} :
       /\ routeInternal' = r
       /\ response' = OkResponse(r)
  /\ routePc' = "responded"
  /\ UNCHANGED <<routeCopy, consensusCopy, request, aiConfig, callState,
                 invocations, rawOutcome, branch, consensusPromise>>
  /\ UNCHANGED outsideRoute

\* POST up to await performAIConsensus, and performAIConsensus up to its
\* first wait: the providers of invokedAtStart are called
StartConsensus ==
  /\ routePc = "received"
  /\ ~contentRejected(request.content, routeCopy)
  /\ useAIOf(request.config)
  /\ routeInternal' = analyzeSlopContent(request.content, FILLER_REGEXES).result
  /\ aiConfig' = aiConfigOf(request.config, routeCopy)
  /\ \E started \in {invokedAtStart(Len(request.config.providers), consensusCopy)} :
       /\ callState' = [i \in 1..Len(request.config.providers) |->
                          IF i \in started THEN "pending" ELSE "idle"]
       /\ invocations' = [i \in 1..Len(request.config.providers) |->
                            IF i \in started THEN 1 ELSE 0]
  /\ rawOutcome' = [i \in 1..Len(request.config.providers) |-> NoOutcome]
  /\ branch' = [i \in 1..Len(request.config.providers) |-> NoOutcome]
  /\ routePc' = "consensus"
  /\ UNCHANGED <<routeCopy, consensusCopy, request, consensusPromise, response>>
  /\ UNCHANGED outsideRoute

\* the call of provider i settles on the reply r (a provider that sends no
\* request settles without one); in part_006 the loop then calls the next
\* provider
SettleProvider(i, r) ==
  /\ routePc = "consensus"
  /\ i \in 1..Len(callState)
  /\ callState[i] = "pending"
  /\ r \in (IF sendsRequest(aiConfig.providers[i]) THEN RouteReplies ELSE {NoReply})
  /\ \E o \in {analyzeWithNamedProvider(request.content, aiConfig.providers[i], r)} :
       /\ rawOutcome' = [rawOutcome EXCEPT ![i] = o]
       /\ branch' = [branch EXCEPT ![i] = isolate(o, aiConfig.providers[i])]
  /\ \E next \in {IF consensusCopy = "part_006" /\ i < Len(callState) THEN {i + 1} ELSE {}} :
       /\ callState' = [j \in 1..Len(callState) |->
                          IF j = i THEN "settled"
                          ELSE IF j \in next THEN "pending" ELSE callState[j]]
       /\ invocations' = [j \in 1..Len(callState) |->
                            IF j \in next THEN invocations[j] + 1 ELSE invocations[j]]
  /\ UNCHANGED <<routeCopy, consensusCopy, request, routeInternal, aiConfig,
                 consensusPromise, response, routePc>>
  /\ UNCHANGED outsideRoute

\* every call has settled: performAIConsensus returns and POST answers
AnswerConsensus ==
  /\ routePc = "consensus"
  /\ \A i \in 1..Len(callState) : callState[i] = "settled"
  /\ \E p \in {performAIConsensus(branch, consensusCopy)} :
       /\ consensusPromise' = p
       /\ response' = respondAfterConsensus(routeInternal, p, aiConfig)
  /\ routePc' = "responded"
  /\ UNCHANGED <<routeCopy, consensusCopy, request, routeInternal, aiConfig, callState,
                 invocations, rawOutcome, branch>>
  /\ UNCHANGED outsideRoute

RouteNext ==
  \/ RejectRequest
  \/ AnswerInternal
  \/ StartConsensus
  \/ \E i \in 1..MaxProviders : \E r \in RouteReplies \cup {NoReply} : SettleProvider(i, r)
  \/ AnswerConsensus

RouteSpec == RouteInit /\ [][RouteNext]_vars

(***************************************************************************)
(* The page component Home.  The repository holds two copies of it: the    *)
(* one in src/app/api/ai-analyze/route.ts offers AI consensus, the one in  *)
(* src/unnamed/part_004 analyses locally only.  An event handler runs to   *)
(* its first await in one step; the page is rendered between the steps, so *)
(* every handler reads the state as it was rendered last.  A handler call  *)
(* that waits for a fetch is an entry of handlers; it carries what its     *)
(* closure captured.                                                       *)
(***************************************************************************)
PageCopies == {"route.ts", "part_004"}

\* what the user may type
PageTexts == {<<>>, <<" ">>, <<"S", "h", "o", "c", "k", "i", "n", "g", "!", " ", "D", "i", "v", "e", " ", "d", "e", "e", "p">>}

PageUrls == {<<>>, <<" ">>, <<"h", "t", "t", "p", "s", ":", "/", "/", "y", "o", "u", "t", "u", ".", "b", "e", "/", "x">>}

\* a fetch that rejects (the network fails); the message of the error is
\* the browser's
FetchFailed == [thrown |-> TRUE, ok |-> FALSE, data |-> Undefined]

\* a fetch that resolves: response.ok and the parsed body
HttpReply(ok, data) == [thrown |-> FALSE, ok |-> ok, data |-> data]

\* the replies of /api/youtube
TranscriptReplies ==
  {FetchFailed,
   HttpReply(FALSE, [error |-> Str(<<"I", "n", "v", "a", "l", "i", "d", " ", "Y", "o", "u", "T", "u", "b", "e", " ", "U", "R", "L">>)]),
   HttpReply(FALSE, [error |-> Undefined]),
   HttpReply(TRUE, [text |-> <<"S", "h", "o", "c", "k", "i", "n", "g", "!", " ", "D", "i", "v", "e", " ", "d", "e", "e", "p">>])}

\* the replies of /api/ai-analyze
AiReplies ==
  {FetchFailed,
   HttpReply(FALSE, [error |-> Str(<<"F", "a", "i", "l", "e", "d", " ", "t", "o", " ", "a", "n", "a", "l", "y", "z", "e", " ", "c", "o", "n", "t", "e", "n", "t">>)]),
   HttpReply(FALSE, [error |-> Undefined]),
   HttpReply(TRUE,
     [analysis |-> enrichWithAI(analyzeSlopContent(<<"S", "h", "o", "c", "k", "i", "n", "g", "!", " ", "D", "i", "v", "e", " ", "d", "e", "e", "p">>,
                                                   FILLER_REGEXES).result,
                                NoResultsConsensus, DEFAULT_AI_CONFIG),
      warning |-> Undefined]),
   HttpReply(TRUE,
     [analysis |-> analyzeSlopContent(<<"S", "h", "o", "c", "k", "i", "n", "g", "!", " ", "D", "i", "v", "e", " ", "d", "e", "e", "p">>, FILLER_REGEXES).result,
      warning |-> Str(<<"A", "I", " ", "c", "o", "n", "s", "e", "n", "s", "u", "s", " ", "a", "n", "a", "l", "y", "s", "i", "s", " ", "n", "o", "t", " ", "a", "v", "a", "i", "l", "a", "b", "l", "e", ".", " ">>
                        \o <<"S", "h", "o", "w", "i", "n", "g", " ", "i", "n", "t", "e", "r", "n", "a", "l", " ", "a", "n", "a", "l", "y", "s", "i", "s", " ", "o", "n", "l", "y", ".">>)])}

\* the Analyze button without its disabled attribute
buttonNeverDisabled(flag) == FALSE

\* <button onClick={handleAnalyze} disabled={loading}>
buttonDisabled(flag) == flag

\* what a handler call does when its fetch has settled on reply: it goes on
\* to the AI endpoint (continues), or it ends, having set the analysis (and
\* the warning) or the error; finally sets loading to false.  A text
\* handler reports every failure by one message, a YouTube handler by the
\* message of the error thrown.
settleFetch(handler, reply) ==
  LET failed(message) ==
        [continues |-> FALSE, analysis |-> Undefined, warning |-> Undefined,
         error |-> Str(IF handler.kind = "text" THEN <<"F", "a", "i", "l", "e", "d", " ", "t", "o", " ", "a", "n", "a", "l", "y", "z", "e", " ", "c", "o", "n", "t", "e", "n", "t">>
                       ELSE message)]
  IN IF reply.thrown THEN failed(<<"F", "a", "i", "l", "e", "d", " ", "t", "o", " ", "f", "e", "t", "c", "h">>)
     ELSE IF ~reply.ok
       THEN failed(OrElse(reply.data.error,
                          Str(IF handler.stage = "transcript"
                                THEN <<"F", "a", "i", "l", "e", "d", " ", "t", "o", " ", "f", "e", "t", "c", "h", " ", "t", "r", "a", "n", "s", "c", "r", "i", "p", "t">>
                              ELSE <<"F", "a", "i", "l", "e", "d", " ", "t", "o", " ", "a", "n", "a", "l", "y", "z", "e", " ", "w", "i", "t", "h", " ", "A", "I">>)).value)
     ELSE IF handler.stage = "transcript"
       THEN IF handler.useAI
              THEN [continues |-> TRUE, analysis |-> Undefined,
                    warning |-> Undefined, error |-> Undefined]
            ELSE [continues |-> FALSE,
                  analysis |-> analyzeSlopContent(reply.data.text,
                                                  FILLER_REGEXES).result,
                  warning |-> Undefined, error |-> Undefined]
     ELSE [continues |-> FALSE, analysis |-> reply.data.analysis,
           warning |-> reply.data.warning, error |-> Undefined]

\* handlers without its i-th entry
removeAt(seq, i) == SubSeq(seq, 1, i - 1) \o SubSeq(seq, i + 1, Len(seq))

PageInit ==
  /\ pageCopy \in PageCopies
  /\ inputType = "text"
  /\ textContent = <<>>
  /\ youtubeUrl = <<>>
  /\ loading = FALSE
  /\ pageAnalysis = Null
  /\ pageError = <<>>
  /\ pageUseAI = FALSE
  /\ aiWarning = <<>>
  /\ handlers = <<>>
  /\ clearedBySwitch = FALSE
  /\ SlopAtRest
  /\ RatingAtRest
  /\ ProviderAtRest
  /\ ConsensusAtRest
  /\ RouteAtRest

\* onChange of the textarea
TypeText(typed) ==
  /\ inputType = "text"
  /\ typed # textContent
  /\ textContent' = typed
  /\ UNCHANGED <<pageCopy, inputType, youtubeUrl, loading, pageAnalysis, pageError,
                 pageUseAI, aiWarning, handlers, clearedBySwitch>>
  /\ UNCHANGED outsidePage

\* onChange of the URL field
TypeUrl(typed) ==
  /\ inputType = "youtube"
  /\ typed # youtubeUrl
  /\ youtubeUrl' = typed
  /\ UNCHANGED <<pageCopy, inputType, textContent, loading, pageAnalysis, pageError,
                 pageUseAI, aiWarning, handlers, clearedBySwitch>>
  /\ UNCHANGED outsidePage

\* onChange of the AI checkbox (route.ts only)
ToggleUseAI ==
  /\ pageCopy = "route.ts"
  /\ pageUseAI' = ~pageUseAI
  /\ UNCHANGED <<pageCopy, inputType, textContent, youtubeUrl, loading, pageAnalysis,
                 pageError, aiWarning, handlers, clearedBySwitch>>
  /\ UNCHANGED outsidePage

\* onClick of an input type button; clearedBySwitch records that the
\* button of the other type was clicked since the last analysis started
SwitchInput(type) ==
  /\ inputType' = type
  /\ pageAnalysis' = Null
  /\ pageError' = <<>>
  /\ clearedBySwitch' = (clearedBySwitch \/ type # inputType)
  /\ UNCHANGED <<pageCopy, textContent, youtubeUrl, loading, pageUseAI, aiWarning,
                 handlers>>
  /\ UNCHANGED outsidePage

\* handleAnalyze on an input that is empty once trimmed
AnalyzeNothing ==
  /\ ~buttonDisabled(loading)
  /\ Len(trim(IF inputType = "text" THEN textContent ELSE youtubeUrl)) = 0
  /\ pageError' = IF inputType = "text" THEN <<"P", "l", "e", "a", "s", "e", " ", "e", "n", "t", "e", "r", " ", "s", "o", "m", "e", " ", "t", "e", "x", "t", " ", "t", "o", " ", "a", "n", "a", "l", "y", "z", "e">>
                  ELSE <<"P", "l", "e", "a", "s", "e", " ", "e", "n", "t", "e", "r", " ", "a", " ", "Y", "o", "u", "T", "u", "b", "e", " ", "U", "R", "L">>
  /\ UNCHANGED <<pageCopy, inputType, textContent, youtubeUrl, loading, pageAnalysis,
                 pageUseAI, aiWarning, handlers, clearedBySwitch>>
  /\ UNCHANGED outsidePage

\* handleAnalyzeText without AI: the whole handler runs in one step, with
\* setLoading(true) at its start and setLoading(false) in its finally
AnalyzeTextLocally ==
  /\ ~buttonDisabled(loading)
  /\ inputType = "text"
  /\ Len(trim(textContent)) # 0
  /\ ~(pageCopy = "route.ts" /\ pageUseAI)
  /\ pageError' = <<>>
  /\ aiWarning' = <<>>
  /\ pageAnalysis' = analyzeSlopContent(textContent, FILLER_REGEXES).result
  /\ loading' = FALSE
  /\ clearedBySwitch' = FALSE
  /\ UNCHANGED <<pageCopy, inputType, textContent, youtubeUrl, pageUseAI, handlers>>
  /\ UNCHANGED outsidePage

\* handleAnalyzeText with AI (up to its await fetch) and handleAnalyzeYouTube
\* (up to its first await fetch)
AnalyzeWithFetch ==
  /\ ~buttonDisabled(loading)
  /\ Len(handlers) < MaxHandlers
  /\ \/ /\ inputType = "text"
        /\ Len(trim(textContent)) # 0
        /\ pageCopy = "route.ts" /\ pageUseAI
        /\ handlers' = Append(handlers,
                              [kind |-> "text", stage |-> "ai", useAI |-> TRUE])
     \/ /\ inputType = "youtube"
        /\ Len(trim(youtubeUrl)) # 0
        /\ handlers' = Append(handlers,
                              [kind |-> "youtube", stage |-> "transcript",
                               useAI |-> pageCopy = "route.ts" /\ pageUseAI])
  /\ pageError' = <<>>
  /\ aiWarning' = <<>>
  /\ loading' = TRUE
  /\ clearedBySwitch' = FALSE
  /\ UNCHANGED <<pageCopy, inputType, textContent, youtubeUrl, pageAnalysis, pageUseAI>>
  /\ UNCHANGED outsidePage

\* the fetch the i-th handler call waits for settles on reply, and the
\* handler runs on to its next await or to its end
FetchSettles(i, reply) ==
  /\ i \in 1..Len(handlers)
  /\ reply \in (IF handlers[i].stage = "transcript" THEN TranscriptReplies
                 ELSE AiReplies)
  /\ \E step \in {settleFetch(handlers[i], reply)} :
       IF step.continues
         THEN /\ handlers' = [handlers EXCEPT ![i].stage = "ai"]
              /\ UNCHANGED <<loading, pageAnalysis, pageError, aiWarning>>
         ELSE /\ handlers' = removeAt(handlers, i)
              /\ loading' = FALSE
              /\ pageAnalysis' = IF step.analysis = Undefined THEN pageAnalysis
                                 ELSE step.analysis
              /\ pageError' = IF step.error = Undefined THEN pageError
                              ELSE step.error.value
              /\ aiWarning' = IF Truthy(step.warning) THEN step.warning.value
                              ELSE aiWarning
  /\ UNCHANGED <<pageCopy, inputType, textContent, youtubeUrl, pageUseAI,
                 clearedBySwitch>>
  /\ UNCHANGED outsidePage

\* some fetch settles
SomeFetchSettles ==
  \E i \in 1..MaxHandlers : \E reply \in TranscriptReplies \cup AiReplies :
    FetchSettles(i, reply)

PageNext ==
  \/ \E typed \in PageTexts : TypeText(typed)
  \/ \E typed \in PageUrls : TypeUrl(typed)
  \/ ToggleUseAI
  \/ \E type \in {"text", "youtube"} : SwitchInput(type)
  \/ AnalyzeNothing
  \/ AnalyzeTextLocally
  \/ AnalyzeWithFetch
  \/ SomeFetchSettles

PageSpec == PageInit /\ [][PageNext]_vars

\* every fetch settles in the end: it resolves or it rejects
PageFairSpec == PageSpec /\ WF_vars(SomeFetchSettles)

(***************************************************************************)
(* Properties of analyzeSlopContent.  The result they speak of is the one  *)
(* the call on input has returned (pc = "done").                           *)
(***************************************************************************)
Returned == pc = "done"

FactorNames == {"repetitiveness", "aiGenerated", "clickbait", "lowEffort", "fluff"}

\* s starts with prefix
startsWith(s, prefix) ==
  Len(s) >= Len(prefix) /\ SubSeq(s, 1, Len(prefix)) = prefix

\* s ends with suffix
endsWith(s, suffix) ==
  Len(s) >= Len(suffix) /\ SubSeq(s, Len(s) - Len(suffix) + 1, Len(s)) = suffix

\* the positions of the entries of details that satisfy P
detailsWhere(P(_)) == {i \in 1..Len(result.details) : P(result.details[i])}

\* C1: the score and each of the five factors of every result are integers
\* between 0 and 100, however many detection rules fire.
C1_ScoreAndFactorsInRange ==
  Returned =>
    /\ result.score \in 0..100
    /\ \A f \in FactorNames : result.factors[f] \in 0..100

\* a text on which the rules of a scorer add up to more than 100
C1_Witness ==
  /\ Returned
  /\ Cardinality({k \in 1..Len(AI_PHRASES) :
                    includes(toLowerCase(input), AI_PHRASES[k])}) >= 7
  /\ result.factors.aiGenerated = 100

\* C2: the score is the weighted sum of the factors with the weights 25%,
\* 25%, 20%, 15% and 15%, rounded to the nearest integer, halves rounded up.
C2_WeightedScore ==
  Returned =>
    result.score =
      (25 * result.factors.repetitiveness + 25 * result.factors.aiGenerated
         + 20 * result.factors.clickbait + 15 * result.factors.lowEffort
         + 15 * result.factors.fluff + 50) \div 100

\* a result whose weighted sum lies exactly half way between two integers
C2_Witness ==
  /\ Returned
  /\ (25 * result.factors.repetitiveness + 25 * result.factors.aiGenerated
        + 20 * result.factors.clickbait + 15 * result.factors.lowEffort
        + 15 * result.factors.fluff) % 100 = 50

\* C3: a call leaves no state behind and its result does not depend on the
\* calls made before it: the filler regexes are, between calls, as they were
\* when the module was loaded, and every result is the one the same text
\* gets from a freshly loaded module.
C3_NoStateBetweenCalls ==
  /\ lastIndex = FILLER_REGEXES
  /\ Returned => result = analyzeSlopContent(input, FILLER_REGEXES).result

\* a call that follows earlier ones, on a text in which the filler regexes
\* find matches
C3_Witness ==
  /\ Returned
  /\ earlierCalls
  /\ result.factors.fluff > 0

\* C4: the empty text is analysed without failure: lowEffort is 40, the other
\* factors are 0, the score is 6 and the only detail reports 0 words.
C4_EmptyContent ==
  (Returned /\ input = <<>>) =>
    /\ result.factors = [repetitiveness |-> 0, aiGenerated |-> 0, clickbait |-> 0,
                         lowEffort |-> 40, fluff |-> 0]
    /\ result.score = 6
    /\ result.details = <<<<"V", "e", "r", "y", " ", "s", "h", "o", "r", "t", " ", "c", "o", "n", "t", "e", "n", "t", " ", "(", "0", " ", "w", "o", "r", "d", "s", ")">>>>

\* the call on the empty text has returned
C4_Witness == Returned /\ input = <<>> /\ result.score = 6

\* the pairs <<w, n>> of a normalized word w of the input (a word lower-cased
\* and stripped of its non-alphanumeric characters) that is longer than 3
\* characters and the number n >= 6 of its occurrences
FrequentWords ==
  LET words == wordsOf(input)
      normalized == SubSeq([i \in 1..Len(words) |-> normalizeWord(words[i])],
                           1, Len(words))
      long == SelectSeq(normalized, LAMBDA w : Len(w) > 3)
      counted == {<<long[i], Cardinality({j \in 1..Len(long) : long[j] = long[i]})>> :
                    i \in 1..Len(long)}
  IN {e \in counted : e[2] >= 6}

\* some entry of details names the word e[1] with its number e[2] of
\* occurrences: "w" (Nx)
NamedWithCount(e) ==
  \E i \in 1..Len(result.details) :
    includes(result.details[i], formatWordCount(e))

\* the number of words of frequent other than e[1] that occur at least as
\* often as it does
AtLeastAsFrequent(frequent, e) ==
  Cardinality({f \in frequent \ {e} : f[2] >= e[2]})

\* C5 as stated: for every word whose normalized form is longer than 3
\* characters and occurs 6 or more times, repetitiveness is at least 30 and
\* an entry of details names the word with its count.
C5_EveryFrequentWordNamed ==
  Returned =>
    \A e \in FrequentWords :
      /\ result.factors.repetitiveness >= 30
      /\ NamedWithCount(e)

\* C5 amended: for every such word repetitiveness is at least 30, and an
\* entry of details names the word with its count whenever fewer than three
\* other such words occur at least as often as it does.
C5_FrequentWordNamedAmongTopThree ==
  Returned =>
    LET frequent == FrequentWords
    IN \A e \in frequent :
         /\ result.factors.repetitiveness >= 30
         /\ AtLeastAsFrequent(frequent, e) < 3 => NamedWithCount(e)

\* three frequent words, one of them named although two others occur at
\* least as often
C5_Witness ==
  /\ Returned
  /\ LET frequent == FrequentWords
     IN \E e \in frequent :
          AtLeastAsFrequent(frequent, e) = 2 /\ NamedWithCount(e)

\* two segments of the input, as split on runs of '.', '!' and '?', are equal
\* after trimming and lower-casing and are then longer than 10 characters
HasRepeatedSentence ==
  LET segments == split(input, SentenceEnd)
      normalized == SubSeq([i \in 1..Len(segments) |->
                              toLowerCase(trim(segments[i]))],
                           1, Len(segments))
  IN \E i, j \in 1..Len(segments) :
       i < j /\ normalized[i] = normalized[j] /\ Len(normalized[i]) > 10

\* the entries of details that report sentence repetition
SentenceDetails ==
  detailsWhere(LAMBDA d : endsWith(d, <<" ", "s", "e", "n", "t", "e", "n", "c", "e", "(", "s", ")", " ", "r", "e", "p", "e", "a", "t", "e", "d", " ", "m", "u", "l", "t", "i", "p", "l", "e", " ", "t", "i", "m", "e", "s">>))

\* C6: when two sentence segments are equal after trimming and lower-casing
\* and longer than 10 characters, repetitiveness is at least 40, it is 70
\* when the repeated-word rule fires as well, and exactly one entry of
\* details reports sentence repetition.
C6_RepeatedSentences ==
  (Returned /\ HasRepeatedSentence) =>
    /\ result.factors.repetitiveness >= 40
    /\ FrequentWords # {} => result.factors.repetitiveness = 70
    /\ Cardinality(SentenceDetails) = 1

\* a repeated sentence in a text in which the repeated-word rule fires too
C6_Witness ==
  /\ Returned
  /\ HasRepeatedSentence
  /\ FrequentWords # {}
  /\ result.factors.repetitiveness = 70

\* the listed phrases that are substrings of the lower-cased input
PresentPhrases ==
  {k \in 1..Len(AI_PHRASES) : includes(toLowerCase(input), AI_PHRASES[k])}

\* the entries of details that list AI-typical phrases
AIDetails ==
  detailsWhere(LAMBDA d : startsWith(d, <<"A", "I", "-", "t", "y", "p", "i", "c", "a", "l", " ", "p", "h", "r", "a", "s", "e", "s", " ", "d", "e", "t", "e", "c", "t", "e", "d", ":", " ">>))

\* C7: aiGenerated is min(15 * k, 100), k being the number of listed phrases
\* present in the lower-cased input, however often each occurs; with exactly
\* two phrases present it is 30 and the one AI entry of details lists these
\* two phrases and nothing else.
C7_AIScoreCountsDistinctPhrases ==
  Returned =>
    LET k == Cardinality(PresentPhrases)
    IN /\ result.factors.aiGenerated = (IF 15 * k < 100 THEN 15 * k ELSE 100)
       /\ k = 2 =>
            LET first == CHOOSE p \in PresentPhrases :
                           \A q \in PresentPhrases : p <= q
                second == CHOOSE p \in PresentPhrases : p # first
            IN /\ result.factors.aiGenerated = 30
               /\ Cardinality(AIDetails) = 1
               /\ \A i \in AIDetails :
                    result.details[i] =
                      <<"A", "I", "-", "t", "y", "p", "i", "c", "a", "l", " ", "p", "h", "r", "a", "s", "e", "s", " ", "d", "e", "t", "e", "c", "t", "e", "d", ":", " ">>
                        \o AI_PHRASES[first] \o <<",", " ">> \o AI_PHRASES[second]

\* two phrases present, one of them twice
C7_Witness ==
  /\ Returned
  /\ Cardinality(PresentPhrases) = 2
  /\ \E k \in PresentPhrases :
       LET lower == toLowerCase(input)
           phrase == AI_PHRASES[k]
       IN Cardinality({i \in 1..(Len(lower) - Len(phrase) + 1) :
                         SubSeq(lower, i, i + Len(phrase) - 1) = phrase}) >= 2
  /\ result.factors.aiGenerated = 30

\* the number of exclamation marks of the input
Exclamations == Cardinality({i \in 1..Len(input) : input[i] = "!"})

\* C8: when the input contains the substring "shocking" and more than 5
\* exclamation marks, clickbait is at least 45 and details holds two distinct
\* clickbait entries: one reports the number of exclamation marks, one lists
\* matched patterns.
C8_ShockingWithExclamations ==
  (Returned /\ includes(input, <<"s", "h", "o", "c", "k", "i", "n", "g">>) /\ Exclamations > 5) =>
    /\ result.factors.clickbait >= 45
    /\ \E i, j \in 1..Len(result.details) :
         /\ i # j
         /\ result.details[i] =
              <<"E", "x", "c", "e", "s", "s", "i", "v", "e", " ", "e", "x", "c", "l", "a", "m", "a", "t", "i", "o", "n", " ", "m", "a", "r", "k", "s", " ", "(">>
                \o NumberToString(Exclamations) \o <<")">>
         /\ startsWith(result.details[j], <<"C", "l", "i", "c", "k", "b", "a", "i", "t", " ", "p", "a", "t", "t", "e", "r", "n", "s", ":", " ">>)

\* "shocking" and six exclamation marks and no other clickbait
C8_Witness ==
  /\ Returned
  /\ includes(input, <<"s", "h", "o", "c", "k", "i", "n", "g">>)
  /\ Exclamations = 6
  /\ result.factors.clickbait = 45

\* the number of matches of the filler regexes in the lower-cased input
FillerTotal ==
  LET lower == toLowerCase(input)
  IN Cardinality({m \in (1..Len(FILLER_PHRASES)) \X (1..Len(lower)) :
                    FillerMatchAt(lower, FILLER_PHRASES[m[1]], m[2])})

\* the entries of details that report filler word usage
FluffDetails ==
  detailsWhere(LAMBDA d : \/ startsWith(d, <<"H", "i", "g", "h", " ", "f", "i", "l", "l", "e", "r", " ", "w", "o", "r", "d", " ", "u", "s", "a", "g", "e", " ", "(">>)
                          \/ startsWith(d, <<"M", "o", "d", "e", "r", "a", "t", "e", " ", "f", "i", "l", "l", "e", "r", " ", "w", "o", "r", "d", " ", "u", "s", "a", "g", "e", " ", "(">>))

\* C9: with fillerCount filler matches and W words, fluff is 50 when
\* fillerCount * 100 > 5 * W, otherwise 25 when fillerCount * 100 > 2 * W,
\* otherwise 0; details holds at most one fluff entry; 6 filler matches in
\* 100 words give 50 and 5 in 100 give 25.
C9_FluffThresholds ==
  Returned =>
    LET fillerCount == FillerTotal
        W == Len(wordsOf(input))
    IN /\ result.factors.fluff =
            (IF fillerCount * 100 > 5 * W THEN 50
             ELSE IF fillerCount * 100 > 2 * W THEN 25
             ELSE 0)
       /\ Cardinality(FluffDetails) <= 1
       /\ (W = 100 /\ fillerCount = 6) => result.factors.fluff = 50
       /\ (W = 100 /\ fillerCount = 5) => result.factors.fluff = 25

\* 100 words with exactly 5 filler matches: the density the first threshold
\* excludes
C9_Witness ==
  /\ Returned
  /\ Len(wordsOf(input)) = 100
  /\ FillerTotal = 5
  /\ result.factors.fluff = 25

\* the place in the order of the scorers of the scorer that writes the
\* entry d, 0 when no scorer writes such an entry
scorerOf(d) ==
  IF \/ startsWith(d, <<"H", "i", "g", "h", "l", "y", " ", "r", "e", "p", "e", "a", "t", "e", "d", " ", "w", "o", "r", "d", "s", ":", " ">>)
     \/ endsWith(d, <<" ", "s", "e", "n", "t", "e", "n", "c", "e", "(", "s", ")", " ", "r", "e", "p", "e", "a", "t", "e", "d", " ", "m", "u", "l", "t", "i", "p", "l", "e", " ", "t", "i", "m", "e", "s">>)
    THEN 1
  ELSE IF startsWith(d, <<"A", "I", "-", "t", "y", "p", "i", "c", "a", "l", " ", "p", "h", "r", "a", "s", "e", "s", " ", "d", "e", "t", "e", "c", "t", "e", "d", ":", " ">>)
    THEN 2
  ELSE IF \/ startsWith(d, <<"E", "x", "c", "e", "s", "s", "i", "v", "e", " ", "e", "x", "c", "l", "a", "m", "a", "t", "i", "o", "n", " ", "m", "a", "r", "k", "s", " ", "(">>)
          \/ startsWith(d, <<"C", "l", "i", "c", "k", "b", "a", "i", "t", " ", "p", "a", "t", "t", "e", "r", "n", "s", ":", " ">>)
    THEN 3
  ELSE IF \/ startsWith(d, <<"V", "e", "r", "y", " ", "s", "h", "o", "r", "t", " ", "c", "o", "n", "t", "e", "n", "t", " ", "(">>)
          \/ startsWith(d, <<"U", "n", "u", "s", "u", "a", "l", "l", "y", " ", "l", "o", "n", "g", " ", "s", "e", "n", "t", "e", "n", "c", "e", "s", " ", "(", "a", "v", "g", " ">>)
          \/ d = <<"L", "a", "c", "k", "s", " ", "p", "r", "o", "p", "e", "r", " ", "s", "e", "n", "t", "e", "n", "c", "e", " ", "s", "t", "r", "u", "c", "t", "u", "r", "e">>
    THEN 4
  ELSE IF \/ startsWith(d, <<"H", "i", "g", "h", " ", "f", "i", "l", "l", "e", "r", " ", "w", "o", "r", "d", " ", "u", "s", "a", "g", "e", " ", "(">>)
          \/ startsWith(d, <<"M", "o", "d", "e", "r", "a", "t", "e", " ", "f", "i", "l", "l", "e", "r", " ", "w", "o", "r", "d", " ", "u", "s", "a", "g", "e", " ", "(">>)
    THEN 5
  ELSE 0

\* C10: the entries of details are grouped by scorer in the order
\* repetitiveness, AI-generated, clickbait, low-effort, fluff: no entry of a
\* later scorer precedes an entry of an earlier one.
C10_DetailsInScorerOrder ==
  Returned =>
    \A i, j \in 1..Len(result.details) :
      i < j =>
        /\ scorerOf(result.details[i]) >= 1
        /\ scorerOf(result.details[i]) <= scorerOf(result.details[j])

\* a result with entries of at least three scorers
C10_Witness ==
  /\ Returned
  /\ Cardinality({scorerOf(result.details[i]) : i \in 1..Len(result.details)}) >= 3

\* calculateLowEffortScore on a text of W words and St sentences
lowEffortOf(W, St) ==
  calculateLowEffortScore(<<>>, [i \in 1..W |-> <<"a">>], [i \in 1..St |-> <<"a">>],
                          <<>>)

\* C20 as the specification states it: there are inputs on which the three
\* low-effort rules fire together, giving lowEffort = 90 with three
\* low-effort details: the text analysed is one, or some text of up to
\* MaxWords words and MaxSentences sentences is.
C20_AllThreeRulesFire ==
  \/ /\ Returned
     /\ result.factors.lowEffort = 90
     /\ Cardinality(detailsWhere(LAMBDA d : scorerOf(d) = 4)) = 3
  \/ \E W \in 0..MaxWords, St \in 0..MaxSentences :
       /\ lowEffortOf(W, St).score = 90
       /\ Len(lowEffortOf(W, St).details) = 3

\* C20: the low-effort rules add 40 (fewer than 50 words), 30 (more than 50
\* words per sentence) and 20 (fewer than 3 sentences and more than 30 words),
\* one entry of details each; the first two never fire together, so at most
\* two rules fire and lowEffort is at most 60.
C20_LowEffortRules ==
  Returned =>
    LET W == Len(wordsOf(input))
        St == Len(sentencesOf(input))
        ruleShort == W < 50
        ruleLong == W > 50 * max(St, 1)
        ruleStructure == St < 3 /\ W > 30
        fired == Cardinality({r \in {<<1, ruleShort>>, <<2, ruleLong>>,
                                      <<3, ruleStructure>>} : r[2]})
    IN /\ ~(ruleShort /\ ruleLong)
       /\ result.factors.lowEffort =
            (IF ruleShort THEN 40 ELSE 0) + (IF ruleLong THEN 30 ELSE 0)
              + (IF ruleStructure THEN 20 ELSE 0)
       /\ Cardinality(detailsWhere(LAMBDA d : scorerOf(d) = 4)) = fired
       /\ fired <= 2
       /\ result.factors.lowEffort \in {0, 20, 30, 40, 50, 60}

\* a text on which two low-effort rules fire: the largest lowEffort there is
C20_Witness ==
  /\ Returned
  /\ Len(wordsOf(input)) \in 31..49
  /\ Len(sentencesOf(input)) < 3
  /\ result.factors.lowEffort = 60
  /\ Cardinality(detailsWhere(LAMBDA d : scorerOf(d) = 4)) = 2

\* C21: repetitiveness is at most 70, lowEffort at most 60 and fluff at most
\* 50, so the overall score never exceeds 79; getSlopRating of it is never
\* "Extreme Slop" and getSlopColor of it never the red class.
C21_NeverExtreme ==
  Returned =>
    /\ result.factors.repetitiveness <= 70
    /\ result.factors.lowEffort <= 60
    /\ result.factors.fluff <= 50
    /\ result.score <= 79
    /\ getSlopRating(result.score) # "Extreme Slop"
    /\ getSlopColor(result.score) # "text-red-600"

\* a text that brings every factor to its largest value: the score is 79
C21_Witness ==
  /\ Returned
  /\ result.factors = [repetitiveness |-> 70, aiGenerated |-> 100,
                       clickbait |-> 100, lowEffort |-> 60, fluff |-> 50]
  /\ result.score = 79
  /\ getSlopRating(result.score) = "High Slop"

\* the positions in details of the entries of the repeated-word rule
RepeatedWordDetails ==
  detailsWhere(LAMBDA d : startsWith(d, <<"H", "i", "g", "h", "l", "y", " ", "r", "e", "p", "e", "a", "t", "e", "d", " ", "w", "o", "r", "d", "s", ":", " ">>))

\* the lists of n different entries of frequent
ListsOf(frequent, n) ==
  {q \in [1..n -> frequent] : \A i, j \in 1..n : i # j => q[i] # q[j]}

C22_FiveTimes ==
  /\ Returned
  /\ LET words == wordsOf(input)
     IN Cardinality({i \in 1..Len(words) :
                       normalizeWord(words[i]) = <<"t", "e", "s", "t">>}) = 5
  /\ RepeatedWordDetails = {}

\* the entries of details the low-effort scorer wrote, in their order
LowEffortDetails == SelectSeq(result.details, LAMBDA d : scorerOf(d) = 4)

\* C23: with W words and St sentences, lowEffort is 40 if W < 50, plus 30 if
\* W / max(St, 1) > 50, plus 20 if St < 3 and W > 30, and each rule that
\* fires writes its entry, in that order; the comparisons are strict.
C23_LowEffortFormula ==
  Returned =>
    LET W == Len(wordsOf(input))
        St == Len(sentencesOf(input))
        divisor == IF St > 1 THEN St ELSE 1
        ruleShort == W < 50
        ruleLong == W > 50 * divisor
        ruleStructure == St < 3 /\ W > 30
    IN /\ result.factors.lowEffort =
            40 * (IF ruleShort THEN 1 ELSE 0) + 30 * (IF ruleLong THEN 1 ELSE 0)
              + 20 * (IF ruleStructure THEN 1 ELSE 0)
       /\ LowEffortDetails =
            (IF ruleShort
               THEN <<<<"V", "e", "r", "y", " ", "s", "h", "o", "r", "t", " ", "c", "o", "n", "t", "e", "n", "t", " ", "(">> \o NumberToString(W)
                        \o <<" ", "w", "o", "r", "d", "s", ")">>>>
               ELSE <<>>)
            \o (IF ruleLong
                  THEN <<<<"U", "n", "u", "s", "u", "a", "l", "l", "y", " ", "l", "o", "n", "g", " ", "s", "e", "n", "t", "e", "n", "c", "e", "s", " ", "(", "a", "v", "g", " ">>
                           \o NumberToString((2 * W + divisor) \div (2 * divisor))
                           \o <<" ", "w", "o", "r", "d", "s", ")">>>>
                  ELSE <<>>)
            \o (IF ruleStructure
                  THEN <<<<"L", "a", "c", "k", "s", " ", "p", "r", "o", "p", "e", "r", " ", "s", "e", "n", "t", "e", "n", "c", "e", " ", "s", "t", "r", "u", "c", "t", "u", "r", "e">>>>
                  ELSE <<>>)

\* a text of exactly 50 words and no sentence end: it is not short and its
\* average of exactly 50 is not long; the third rule alone fires
C23_Witness ==
  /\ Returned
  /\ Len(wordsOf(input)) = 50
  /\ Len(sentencesOf(input)) <= 1
  /\ result.factors.lowEffort = 20
  /\ LowEffortDetails = <<<<"L", "a", "c", "k", "s", " ", "p", "r", "o", "p", "e", "r", " ", "s", "e", "n", "t", "e", "n", "c", "e", " ", "s", "t", "r", "u", "c", "t", "u", "r", "e">>>>

\* a text of exactly 30 words in fewer than 3 sentences: the third rule is
\* silent
C23_ThirtyWords ==
  /\ Returned
  /\ Len(wordsOf(input)) = 30
  /\ Len(sentencesOf(input)) < 3
  /\ result.factors.lowEffort = 40

\* a text on which the long-sentence rule and the third rule fire
C23_LongSentences ==
  /\ Returned
  /\ Len(LowEffortDetails) = 2
  /\ result.factors.lowEffort = 50

\* the scorers in the order of their calls
ScorerOfFactor ==
  [repetitiveness |-> 1, aiGenerated |-> 2, clickbait |-> 3, lowEffort |-> 4,
   fluff |-> 5]

\* C24: details is empty exactly when no rule fired: it is empty if and only
\* if all five factors are 0, a scorer has an entry in details if and only if
\* it added points, and the score is 0 if and only if details is empty.
C24_DetailsEmptyIffNothingFired ==
  Returned =>
    /\ result.details = <<>> <=> \A f \in FactorNames : result.factors[f] = 0
    /\ \A f \in FactorNames :
         result.factors[f] > 0 <=>
           detailsWhere(LAMBDA d : scorerOf(d) = ScorerOfFactor[f]) # {}
    /\ \A i \in 1..Len(result.details) : scorerOf(result.details[i]) \in 1..5
    /\ result.score = 0 <=> result.details = <<>>

\* a text on which no rule fires: 50 and more words in 3 sentences
C24_Witness ==
  /\ Returned
  /\ Len(wordsOf(input)) >= 50
  /\ result.details = <<>>
  /\ result.score = 0
  /\ \A f \in FactorNames : result.factors[f] = 0

\* the matched substrings of the clickbait patterns that match the input,
\* in the order of the pattern list
MatchedPatterns ==
  LET found == SelectSeq(Indices(Len(CLICKBAIT_PATTERNS)),
                         LAMBDA k : match(input, CLICKBAIT_PATTERNS[k]).found)
  IN [k \in 1..Len(found) |-> match(input, CLICKBAIT_PATTERNS[found[k]]).text]

\* the entries of details the clickbait scorer wrote, in their order
ClickbaitDetails == SelectSeq(result.details, LAMBDA d : scorerOf(d) = 3)

\* C25: with m matching patterns and E exclamation marks, clickbait is
\* min(25 * m + 20 * [E > 5], 100); the exclamation entry comes before the
\* pattern entry, which is one entry listing the first 2 matched substrings
\* at most, in the order of the pattern list.
C25_ClickbaitFormula ==
  Returned =>
    LET matched == MatchedPatterns
        m == Len(matched)
        E == Exclamations
        points == 25 * m + (IF E > 5 THEN 20 ELSE 0)
        listed == IF m > 2 THEN 2 ELSE m
    IN /\ result.factors.clickbait = (IF points < 100 THEN points ELSE 100)
       /\ ClickbaitDetails =
            (IF E > 5
               THEN <<<<"E", "x", "c", "e", "s", "s", "i", "v", "e", " ", "e", "x", "c", "l", "a", "m", "a", "t", "i", "o", "n", " ", "m", "a", "r", "k", "s", " ", "(">> \o NumberToString(E)
                        \o <<")">>>>
               ELSE <<>>)
            \o (IF m > 0
                  THEN <<<<"C", "l", "i", "c", "k", "b", "a", "i", "t", " ", "p", "a", "t", "t", "e", "r", "n", "s", ":", " ">>
                           \o join([k \in 1..listed |-> matched[k]], <<",", " ">>)>>
                  ELSE <<>>)

\* three patterns match and there are more than 5 exclamation marks
C25_Witness ==
  /\ Returned
  /\ Len(MatchedPatterns) = 3
  /\ Exclamations > 5
  /\ result.factors.clickbait = 95
  /\ Len(ClickbaitDetails) = 2

\* exactly 5 exclamation marks add nothing
C25_FiveMarks ==
  /\ Returned
  /\ Exclamations = 5
  /\ result.factors.clickbait = 0

\* five patterns match: the points are clamped to 100
C25_Clamped ==
  /\ Returned
  /\ Len(MatchedPatterns) = 5
  /\ result.factors.clickbait = 100

(***************************************************************************)
(* Properties of getSlopRating and getSlopColor.                           *)
(***************************************************************************)
\* the lower bound of each rating, and of each colour class
RatingFrom ==
  [r \in {"Extreme Slop", "High Slop", "Moderate Slop", "Low Slop", "Minimal Slop"} |->
     CASE r = "Extreme Slop" -> 80 [] r = "High Slop" -> 60
       [] r = "Moderate Slop" -> 40 [] r = "Low Slop" -> 20 [] OTHER -> 0]

ColorFrom ==
  [c \in {"text-red-600", "text-orange-600", "text-yellow-600", "text-blue-600",
          "text-green-600"} |->
     CASE c = "text-red-600" -> 80 [] c = "text-orange-600" -> 60
       [] c = "text-yellow-600" -> 40 [] c = "text-blue-600" -> 20 [] OTHER -> 0]

\* the largest lower bound, among those of a table, that a score reaches
bucketOf(table, score) ==
  CHOOSE b \in {table[x] : x \in DOMAIN table} :
    /\ b <= score
    /\ \A x \in DOMAIN table : table[x] <= score => table[x] <= b

\* C11: a score gets exactly one of the five ratings, the one whose
\* inclusive lower bound (80, 60, 40, 20, 0) is the largest it reaches, so
\* that 80 is Extreme Slop and 79 is High Slop; getSlopColor puts the score
\* in the same bucket as getSlopRating.
C11_RatingBuckets ==
  /\ rating # "" =>
        /\ rating \in DOMAIN RatingFrom
        /\ RatingFrom[rating] = bucketOf(RatingFrom, shownScore)
        /\ shownScore = 80 => rating = "Extreme Slop"
        /\ shownScore = 79 => rating = "High Slop"
  /\ color # "" =>
        /\ color \in DOMAIN ColorFrom
        /\ ColorFrom[color] = bucketOf(ColorFrom, shownScore)
  /\ (rating # "" /\ color # "") => RatingFrom[rating] = ColorFrom[color]

C11_Witness ==
  /\ shownScore = 80
  /\ rating = "Extreme Slop"
  /\ color = "text-red-600"

(***************************************************************************)
(* Properties of the provider functions.                                   *)
(***************************************************************************)
\* C12: a call of the OpenAI or of the Anthropic provider that has sent its
\* request and got a reply returns the numeric score of the reply, whatever
\* score in 0..100 that is, and fails when the reply carries no numeric
\* score; it never returns a default score in place of the reply's.
C12_NoDefaultScore ==
  (providerPc = "settled" /\ sendsRequest(calledProvider)) =>
    IF serviceReply.kind = "json" /\ serviceReply.json.score.type = "number"
      THEN /\ callOutcome.status = "fulfilled"
           /\ callOutcome.value.score = serviceReply.json.score.value
      ELSE callOutcome.status = "rejected"

(***************************************************************************)
(* Properties of aggregateAIResults and enrichWithAI.  The sums they speak *)
(* of are computed in integers: every confidence is brought to the common  *)
(* denominator of the confidences of the list.                             *)
(***************************************************************************)
RECURSIVE SumOf(_)
SumOf(ints) == IF Len(ints) = 0 THEN 0 ELSE Head(ints) + SumOf(Tail(ints))

RECURSIVE ProductOf(_)
ProductOf(ints) == IF Len(ints) = 0 THEN 1 ELSE Head(ints) * ProductOf(Tail(ints))

\* the common denominator of the confidences of a list of results
CommonDen(results) == ProductOf([i \in 1..Len(results) |-> results[i].confidence.den])

\* the confidences of a list of results in units of 1 / CommonDen(results)
ConfidenceUnits(results) ==
  [i \in 1..Len(results) |->
     results[i].confidence.num * (CommonDen(results) \div results[i].confidence.den)]

Aggregated == libPc \in {"aggregated", "enriched"}

\* C16: aggregateAIResults never divides by zero: on a non-empty list
\* whose confidences sum to 0 it returns consensusScore 0 and confidence 0
\* with one explanatory insight and the results it was given, and its
\* consensusScore is a number (not NaN) on every list.
C16_NoDivisionByZero ==
  Aggregated =>
    /\ isFinite(aggregated.consensusScore)
    /\ (Len(givenResults) > 0 /\ SumOf(ConfidenceUnits(givenResults)) = 0) =>
          /\ aggregated.consensusScore = Num(0, 1)
          /\ aggregated.confidence = Num(0, 1)
          /\ Len(aggregated.insights) = 1
          /\ aggregated.individualResults = givenResults

\* C17: on a non-empty list with positive total confidence consensusScore
\* is the confidence-weighted mean of the scores rounded to the nearest
\* integer, confidence is the mean of the confidences, and individualResults
\* is the list given.
C17_WeightedConsensus ==
  (Aggregated /\ Len(givenResults) > 0 /\ SumOf(ConfidenceUnits(givenResults)) > 0) =>
    LET units == ConfidenceUnits(givenResults)
        n == Len(givenResults)
        weighted == SumOf([i \in 1..n |-> givenResults[i].score.num * units[i]])
    IN /\ aggregated.consensusScore.den = 1
       /\ aggregated.consensusScore.num = MathRound(weighted, SumOf(units))
       /\ aggregated.confidence.num * n * CommonDen(givenResults)
            = aggregated.confidence.den * SumOf(units)
       /\ aggregated.confidence.den > 0
       /\ aggregated.individualResults = givenResults

\* scores 45 and 100 with confidences 1/2 and 1: (22.5 + 100) / 1.5 = 81.67
C17_Witness ==
  /\ libPc = "aggregated"
  /\ Len(givenResults) = 2
  /\ givenResults[1].confidence # givenResults[2].confidence
  /\ aggregated.consensusScore = Num(82, 1)
  /\ aggregated.confidence = Num(3, 4)

\* the weight of a configuration in tenths, 5 when it is missing
TenthsOf(config, field) ==
  IF config.weights = Undefined THEN 5
  ELSE IF config.weights[field] = Undefined THEN 5
  ELSE (10 * config.weights[field].value.num) \div config.weights[field].value.den

\* C18: enrichWithAI returns the score, factors and details of the internal
\* analysis with the consensus as aiConsensus and with finalScore, which is
\* round(score * w_internal + consensusScore * w_ai), a missing weight
\* being 0.5, when includeInternal is true and consensusScore when it is
\* false.
C18_EnrichBlends ==
  libPc = "enriched" =>
    /\ enriched.score = givenAnalysis.score
    /\ enriched.factors = givenAnalysis.factors
    /\ enriched.details = givenAnalysis.details
    /\ enriched.aiConsensus = aggregated
    /\ DOMAIN enriched = {"score", "factors", "details", "aiConsensus", "finalScore"}
    /\ ~givenConfig.includeInternal => enriched.finalScore = aggregated.consensusScore
    /\ (givenConfig.includeInternal /\ isFinite(aggregated.consensusScore)) =>
          enriched.finalScore =
            Num(MathRound(givenAnalysis.score * TenthsOf(givenConfig, "internal")
                            + aggregated.consensusScore.num * TenthsOf(givenConfig, "ai"),
                          10), 1)

\* internal score 15, consensus 82, weights 0.3 and the default 0.5:
\* 4.5 + 41 = 45.5, rounded to 46
C18_Witness ==
  /\ libPc = "enriched"
  /\ givenConfig.includeInternal
  /\ givenConfig.weights # Undefined
  /\ givenConfig.weights.internal = NumV(Num(3, 10))
  /\ givenConfig.weights.ai = Undefined
  /\ givenAnalysis.score = 15
  /\ aggregated.consensusScore = Num(82, 1)
  /\ enriched.finalScore = Num(46, 1)

(***************************************************************************)
(* Properties of the ai-analyze endpoint and of performAIConsensus.  They  *)
(* speak of a request that asked for AI consensus and has been answered.   *)
(***************************************************************************)
ConsensusAnswered == routePc = "responded" /\ useAIOf(request.config)

\* every configured provider has failed (none is configured included)
EveryProviderFailed == \A i \in 1..Len(rawOutcome) : rawOutcome[i].status = "rejected"

\* the providers whose call succeeded, in the order of the configuration
Succeeded ==
  SelectSeq(Indices(Len(rawOutcome)), LAMBDA i : rawOutcome[i].status = "fulfilled")

\* C13: when AI consensus is requested and every configured provider fails,
\* or none is configured, the response presents the internal analysis alone
\* (no finalScore blended with the zero consensus) with the warning that AI
\* consensus is not available.
C13_FallsBackToInternal ==
  (ConsensusAnswered /\ EveryProviderFailed) =>
    /\ response.analysis = routeInternal
    /\ response.warning
         = <<"A", "I", " ", "c", "o", "n", "s", "e", "n", "s", "u", "s", " ", "a", "n", "a", "l", "y", "s", "i", "s", " ", "n", "o", "t", " ", "a", "v", "a", "i", "l", "a", "b", "l", "e", ".", " ", "S", "h", "o", "w", "i", "n", "g", " ", "i", "n", "t", "e", "r", "n", "a", "l", " ", "a", "n", "a", "l", "y", "s", "i", "s", " ", "o", "n", "l", "y", ".">>

C19_WeightsNormalized ==
  (routePc \in {"consensus", "responded"} /\ useAIOf(request.config)
     /\ aiConfig.includeInternal) =>
    LET wi == ToNumber(weightOf(aiConfig.weights, "internal"))
        wa == ToNumber(weightOf(aiConfig.weights, "ai"))
    IN /\ wi.den > 0 /\ wa.den > 0
       /\ 0 <= wi.num /\ wi.num <= wi.den
       /\ 0 <= wa.num /\ wa.num <= wa.den
       /\ wi.num * wa.den + wa.num * wi.den = wi.den * wa.den

\* C26: performAIConsensus fans out: while it waits, every configured
\* provider has been called; and what it returns depends on the outcomes of
\* the calls alone, not on the order in which they settled: it is the
\* aggregate of the successful results in the order of the configuration.
C26_FanOut ==
  /\ routePc = "consensus" =>
       \A i \in 1..Len(invocations) : invocations[i] = 1
  /\ ConsensusAnswered =>
       consensusPromise =
         Fulfilled(aggregateAIResults(
                     [k \in 1..Len(Succeeded) |-> rawOutcome[Succeeded[k]].value],
                     consensusCopy))

\* the request leaves useAI out or sets it to false
UseAIAbsentOrFalse ==
  \/ request.config = Undefined
  \/ request.config.useAI \in {Undefined, BoolV(FALSE)}

\* C27: when the request leaves useAI out or sets it to false, no provider
\* is ever called, and the response to an accepted content carries exactly
\* the result of analyzeSlopContent: no aiConsensus, no finalScore and no
\* warning, whatever providers and weights the request names.
C27_InternalOnly ==
  UseAIAbsentOrFalse =>
    /\ \A i \in 1..Len(invocations) : invocations[i] = 0
    /\ routePc # "consensus"
    /\ (routePc = "responded" /\ response.status = 200) =>
         /\ response.success
         /\ response.analysis
              = analyzeSlopContent(request.content, FILLER_REGEXES).result
         /\ DOMAIN response.analysis = {"score", "factors", "details"}
         /\ response.warning = Undefined
         /\ response.aiError = Undefined
    /\ (routePc = "responded" /\ response.status # 200) =>
         contentRejected(request.content, routeCopy)

\* a request with useAI false that names providers and weights has been
\* answered
C27_Witness ==
  /\ routePc = "responded"
  /\ request.config # Undefined
  /\ request.config.useAI = BoolV(FALSE)
  /\ Len(request.config.providers) = MaxProviders
  /\ request.config.weights # Undefined
  /\ response.status = 200
  /\ response.analysis.score > 0

\* C28: every finalScore the endpoint returns is an integer from 0 to 100,
\* whatever the weights and includeInternal of the request and whichever
\* providers succeed.
C28_FinalScoreInRange ==
  (ConsensusAnswered /\ response.status = 200
     /\ "finalScore" \in DOMAIN response.analysis) =>
    /\ isFinite(response.analysis.finalScore)
    /\ response.analysis.finalScore.den = 1
    /\ response.analysis.finalScore.num \in 0..100

(***************************************************************************)
(* Properties of the page component.                                       *)
(***************************************************************************)
\* C29: once the input type is switched, the analysis stays cleared until
\* the user starts a new analysis: no reply to a request started before the
\* switch makes an analysis appear.
C29_StaysCleared == clearedBySwitch => pageAnalysis = Null

\* no handler call waits for a fetch
NoneInFlight == handlers = <<>>

\* C30 (what holds in every state): at most one analysis request is in
\* flight; loading is true, and the Analyze button disabled, exactly while
\* one is; the message for an empty input is never shown while loading.
C30_LoadingTracksRequest ==
  /\ Len(handlers) <= 1
  /\ loading <=> ~NoneInFlight
  /\ buttonDisabled(loading) <=> loading
  /\ pageError \in {<<"P", "l", "e", "a", "s", "e", " ", "e", "n", "t", "e", "r", " ", "s", "o", "m", "e", " ", "t", "e", "x", "t", " ", "t", "o", " ", "a", "n", "a", "l", "y", "z", "e">>,
                     <<"P", "l", "e", "a", "s", "e", " ", "e", "n", "t", "e", "r", " ", "a", " ", "Y", "o", "u", "T", "u", "b", "e", " ", "U", "R", "L">>} => ~loading

\* C30: an analysis that is started sets loading, loading returns to false
\* whether the analysis succeeds or a fetch fails, the Analyze button is
\* disabled exactly while loading, so that at most one request is in flight,
\* and an empty input sets its error without setting loading.
C30_LoadingReturns ==
  /\ []C30_LoadingTracksRequest
  /\ [][AnalyzeWithFetch => loading']_vars
  /\ [][AnalyzeNothing => (~loading' /\ Len(pageError') > 0 /\ handlers' = <<>>)]_vars
  /\ loading ~> ~loading

\* a transcript fetch has failed: the error is shown and loading is false
\* again
C30_Witness ==
  /\ ~loading
  /\ NoneInFlight
  /\ pageError = <<"F", "a", "i", "l", "e", "d", " ", "t", "o", " ", "f", "e", "t", "c", "h", " ", "t", "r", "a", "n", "s", "c", "r", "i", "p", "t">>

====
